---------------------------- MODULE Spec2Model ----------------------------
(***************************************************************************)
(* Model of the Even G2 protocol example programs:                         *)
(*   examples/notif/notification_trunc.py      (push notification flow)    *)
(*   examples/even-ai/even_ai.py               (AI question/answer card)   *)
(*   examples/llm-teleprompter/llm_teleprompter.py (interactive AI loop)   *)
(*   examples/teleprompter/teleprompter.py     (teleprompter send flow)    *)
(*                                                                         *)
(* Conventions.  A Python `bytes` value is a sequence of naturals 0..255.  *)
(* A Python `str` is a sequence of Unicode code points.  A Python call     *)
(* that can raise returns a record [exc, val]: exc = "none" and val the    *)
(* value, or exc the name of the exception raised and val = <<>>.          *)
(***************************************************************************)
EXTENDS Integers, Sequences, FiniteSets, TLC

VARIABLES
    flow,    \* which program (or which function under test) this run is
    pc,      \* position of the program in its flow
    args,    \* the inputs of the run (command line, clock, function arguments)
    ret,     \* value returned by the function under test
    writes,  \* GATT writes issued so far, oldest first: [ep, ch, data, op]
    seq,     \* the flow's sequence counter (local variable seq)
    magic,   \* the flow's magic / msg_id counter (local variable magic, msg_id)
    exc,     \* exception that ended the flow ("none" while running)
    loc      \* the other local variables of the function being executed

vars == <<flow, pc, args, ret, writes, seq, magic, exc, loc>>

---------------------------------------------------------------------------
(* Python values *)

Ok(v) == [exc |-> "none", val |-> v]

Raise(e) == [exc |-> e, val |-> <<>>]

NoRet == [exc |-> "unset", val |-> <<>>]

IsByte(x) == x \in 0..255

\* bytes(list_of_ints): ValueError unless every item is in range(0, 256)
bytes_(items) ==
    IF \A i \in 1..Len(items) : IsByte(items[i]) THEN Ok(items) ELSE Raise("ValueError")

Repeat(x, n) == [i \in 1..n |-> x]

Last(s) == s[Len(s)]

\* e, once v has been computed (evaluation order only: the value is e)
Then(v, e) == IF v = v THEN e ELSE e

RECURSIVE Xor(_, _)
\* a ^ b on non-negative integers
Xor(a, b) ==
    IF a = 0 THEN b
    ELSE IF b = 0 THEN a
    ELSE (((a % 2) + (b % 2)) % 2) + 2 * Xor(a \div 2, b \div 2)

---------------------------------------------------------------------------
(* CRC-16/CCITT, varint, packet framing: notification_trunc.py *)

RECURSIVE crc16_bits(_, _)
\* the inner loop `for _ in range(8)`: n shift steps on crc
crc16_bits(crc, n) ==
    IF n = 0 THEN crc
    ELSE IF (crc \div 32768) % 2 = 1
         THEN crc16_bits(Xor(crc * 2, 4129) % 65536, n - 1)
         ELSE crc16_bits((crc * 2) % 65536, n - 1)

\* one pass of the loop body for one byte
crc16_byte(crc, byte) == crc16_bits(Xor(crc, byte * 256), 8)

RECURSIVE crc16_from(_, _, _, _)
\* the outer loop `for byte in data` over data[lo..hi], entered with crc.
\* The range is folded left half first, then right half, which is the
\* left-to-right loop; Then() makes the left half's value be computed
\* before the right half is entered, so the evaluation stays shallow.
crc16_from(data, lo, hi, crc) ==
    IF lo > hi THEN crc
    ELSE IF lo = hi THEN crc16_byte(crc, data[lo])
    ELSE LET mid == (lo + hi) \div 2
             left == crc16_from(data, lo, mid, crc)
         IN  Then(left, crc16_from(data, mid + 1, hi, left))

crc16_ccitt(data) == crc16_from(data, 1, Len(data), 65535)

RECURSIVE encode_varint(_)
encode_varint(value) ==
    IF value > 127 THEN <<(value % 128) + 128>> \o encode_varint(value \div 128)
    ELSE <<value % 128>>

build_packet_crc_over_frame(seq_, svc_hi, svc_lo, payload, total_pkts, pkt_num) ==
    LET header == bytes_(<<170, 33, seq_, Len(payload) + 2, total_pkts, pkt_num, svc_hi, svc_lo>>)
    IN  IF header.exc # "none" THEN header
        ELSE LET crc == crc16_ccitt(header.val \o payload)
             IN  Ok(header.val \o payload \o <<crc % 256, (crc \div 256) % 256>>)

build_packet(seq_, svc_hi, svc_lo, payload, total_pkts, pkt_num) ==
    LET header == bytes_(<<170, 33, seq_, Len(payload) + 2, total_pkts, pkt_num, svc_hi, svc_lo>>)
    IN  IF header.exc # "none" THEN header
        ELSE LET crc == crc16_ccitt(payload)
             IN  Ok(header.val \o payload \o <<crc % 256, (crc \div 256) % 256>>)


---------------------------------------------------------------------------
(* The same codec as copied into even_ai.py *)

crc16_ccitt_ai(data) == crc16_from(data, 1, Len(data), 65535)

encode_varint_ai(value) == encode_varint(value)

build_packet_ai(seq_, svc_hi, svc_lo, payload) ==
    LET header == bytes_(<<170, 33, seq_, Len(payload) + 2, 1, 1, svc_hi, svc_lo>>)
    IN  IF header.exc # "none" THEN header
        ELSE LET full == header.val \o payload
                 crc == crc16_ccitt_ai(payload)
             IN  Ok(full \o <<crc % 256, (crc \div 256) % 256>>)

(* The same codec as copied into llm_teleprompter.py *)

crc16_ccitt_llm(data) == crc16_from(data, 1, Len(data), 65535)

encode_varint_llm(value) == encode_varint(value)

build_packet_llm(seq_, svc_hi, svc_lo, payload) ==
    LET header == bytes_(<<170, 33, seq_, Len(payload) + 2, 1, 1, svc_hi, svc_lo>>)
    IN  IF header.exc # "none" THEN header
        ELSE LET full == header.val \o payload
                 crc == crc16_ccitt_llm(payload)
             IN  Ok(full \o <<crc % 256, (crc \div 256) % 256>>)

(* The codec of teleprompter.py: crc16_ccitt takes the initial value, and *)
(* add_crc checksums everything after the first 8 bytes of its argument.  *)

crc16_ccitt_tp(data, init) == crc16_from(data, 1, Len(data), init)

encode_varint_tp(value) == encode_varint(value)

add_crc(packet) ==
    LET crc == crc16_ccitt_tp(SubSeq(packet, 9, Len(packet)), 65535)
    IN  packet \o <<crc % 256, (crc \div 256) % 256>>

build_packet_tp(seq_, service_hi, service_lo, payload) ==
    LET header == bytes_(<<170, 33, seq_, Len(payload) + 2, 1, 1, service_hi, service_lo>>)
    IN  IF header.exc # "none" THEN header
        ELSE Ok(add_crc(header.val \o payload))

---------------------------------------------------------------------------
(* Authentication handshake *)

\* bytes([crc & 0xFF, (crc >> 8) & 0xFF]) as written out in even_ai.py
crc_le_ai(data) ==
    <<crc16_ccitt_ai(data) % 256, (crc16_ccitt_ai(data) \div 256) % 256>>

txid_bytes == <<232, 255, 255, 255, 255, 255, 255, 255, 255, 1>>

build_auth_packets_seq6_twice(timestamp) ==
    LET ts_varint == encode_varint_ai(timestamp)
        txid == txid_bytes
        p1 == <<170, 33, 1, 12, 1, 1, 128, 0, 8, 4, 16, 12, 26, 4, 8, 1, 16, 4>>
        p2 == <<170, 33, 2, 10, 1, 1, 128, 32, 8, 5, 16, 14, 34, 2, 8, 2>>
        payload3 == <<8, 128, 1, 16, 15, 130, 8, 17, 8>> \o ts_varint \o <<16>> \o txid
        p3 == <<170, 33, 3, Len(payload3) + 2, 1, 1, 128, 32>> \o payload3
        p4 == <<170, 33, 4, 12, 1, 1, 128, 0, 8, 4, 16, 16, 26, 4, 8, 1, 16, 4>>
        p5 == <<170, 33, 5, 12, 1, 1, 128, 0, 8, 4, 16, 17, 26, 4, 8, 1, 16, 4>>
        p6 == <<170, 33, 6, 10, 1, 1, 128, 32, 8, 5, 16, 18, 34, 2, 8, 1>>
        payload7 == <<8, 128, 1, 16, 19, 130, 8, 17, 8>> \o ts_varint \o <<16>> \o txid
        p7 == <<170, 33, 6, Len(payload7) + 2, 1, 1, 128, 32>> \o payload7
    IN  << p1 \o crc_le_ai(SubSeq(p1, 9, Len(p1))),
           p2 \o crc_le_ai(SubSeq(p2, 9, Len(p2))),
           p3 \o crc_le_ai(payload3),
           p4 \o crc_le_ai(SubSeq(p4, 9, Len(p4))),
           p5 \o crc_le_ai(SubSeq(p5, 9, Len(p5))),
           p6 \o crc_le_ai(SubSeq(p6, 9, Len(p6))),
           p7 \o crc_le_ai(payload7) >>

\* even_ai.py build_auth_packets; timestamp is int(time.time())
build_auth_packets(timestamp) ==
    LET ts_varint == encode_varint_ai(timestamp)
        txid == txid_bytes
        p1 == <<170, 33, 1, 12, 1, 1, 128, 0, 8, 4, 16, 12, 26, 4, 8, 1, 16, 4>>
        p2 == <<170, 33, 2, 10, 1, 1, 128, 32, 8, 5, 16, 14, 34, 2, 8, 2>>
        payload3 == <<8, 128, 1, 16, 15, 130, 8, 17, 8>> \o ts_varint \o <<16>> \o txid
        p3 == <<170, 33, 3, Len(payload3) + 2, 1, 1, 128, 32>> \o payload3
        p4 == <<170, 33, 4, 12, 1, 1, 128, 0, 8, 4, 16, 16, 26, 4, 8, 1, 16, 4>>
        p5 == <<170, 33, 5, 12, 1, 1, 128, 0, 8, 4, 16, 17, 26, 4, 8, 1, 16, 4>>
        p6 == <<170, 33, 6, 10, 1, 1, 128, 32, 8, 5, 16, 18, 34, 2, 8, 1>>
        payload7 == <<8, 128, 1, 16, 19, 130, 8, 17, 8>> \o ts_varint \o <<16>> \o txid
        p7 == <<170, 33, 7, Len(payload7) + 2, 1, 1, 128, 32>> \o payload7
    IN  << p1 \o crc_le_ai(SubSeq(p1, 9, Len(p1))),
           p2 \o crc_le_ai(SubSeq(p2, 9, Len(p2))),
           p3 \o crc_le_ai(payload3),
           p4 \o crc_le_ai(SubSeq(p4, 9, Len(p4))),
           p5 \o crc_le_ai(SubSeq(p5, 9, Len(p5))),
           p6 \o crc_le_ai(SubSeq(p6, 9, Len(p6))),
           p7 \o crc_le_ai(payload7) >>

crc_le_llm(data) ==
    <<crc16_ccitt_llm(data) % 256, (crc16_ccitt_llm(data) \div 256) % 256>>

\* llm_teleprompter.py build_auth_packets
build_auth_packets_llm(timestamp) ==
    LET ts_varint == encode_varint_llm(timestamp)
        txid == txid_bytes
        p1 == <<170, 33, 1, 12, 1, 1, 128, 0, 8, 4, 16, 12, 26, 4, 8, 1, 16, 4>>
        p2 == <<170, 33, 2, 10, 1, 1, 128, 32, 8, 5, 16, 14, 34, 2, 8, 2>>
        payload3 == <<8, 128, 1, 16, 15, 130, 8, 17, 8>> \o ts_varint \o <<16>> \o txid
        p3 == <<170, 33, 3, Len(payload3) + 2, 1, 1, 128, 32>> \o payload3
        p4 == <<170, 33, 4, 12, 1, 1, 128, 0, 8, 4, 16, 16, 26, 4, 8, 1, 16, 4>>
        p5 == <<170, 33, 5, 12, 1, 1, 128, 0, 8, 4, 16, 17, 26, 4, 8, 1, 16, 4>>
        p6 == <<170, 33, 6, 10, 1, 1, 128, 32, 8, 5, 16, 18, 34, 2, 8, 1>>
        payload7 == <<8, 128, 1, 16, 19, 130, 8, 17, 8>> \o ts_varint \o <<16>> \o txid
        p7 == <<170, 33, 7, Len(payload7) + 2, 1, 1, 128, 32>> \o payload7
    IN  << p1 \o crc_le_llm(SubSeq(p1, 9, Len(p1))),
           p2 \o crc_le_llm(SubSeq(p2, 9, Len(p2))),
           p3 \o crc_le_llm(payload3),
           p4 \o crc_le_llm(SubSeq(p4, 9, Len(p4))),
           p5 \o crc_le_llm(SubSeq(p5, 9, Len(p5))),
           p6 \o crc_le_llm(SubSeq(p6, 9, Len(p6))),
           p7 \o crc_le_llm(payload7) >>

\* teleprompter.py build_auth_packets
build_auth_packets_tp(timestamp) ==
    LET ts_varint == encode_varint_tp(timestamp)
        txid == txid_bytes
        payload3 == <<8, 128, 1, 16, 15, 130, 8, 17, 8>> \o ts_varint \o <<16>> \o txid
        payload7 == <<8, 128, 1, 16, 19, 130, 8, 17, 8>> \o ts_varint \o <<16>> \o txid
    IN  << add_crc(<<170, 33, 1, 12, 1, 1, 128, 0, 8, 4, 16, 12, 26, 4, 8, 1, 16, 4>>),
           add_crc(<<170, 33, 2, 10, 1, 1, 128, 32, 8, 5, 16, 14, 34, 2, 8, 2>>),
           add_crc(<<170, 33, 3, Len(payload3) + 2, 1, 1, 128, 32>> \o payload3),
           add_crc(<<170, 33, 4, 12, 1, 1, 128, 0, 8, 4, 16, 16, 26, 4, 8, 1, 16, 4>>),
           add_crc(<<170, 33, 5, 12, 1, 1, 128, 0, 8, 4, 16, 17, 26, 4, 8, 1, 16, 4>>),
           add_crc(<<170, 33, 6, 10, 1, 1, 128, 32, 8, 5, 16, 18, 34, 2, 8, 1>>),
           add_crc(<<170, 33, 7, Len(payload7) + 2, 1, 1, 128, 32>> \o payload7) >>

\* notification_trunc.py authenticate: the list auth_pkts, ts = int(time.time())
auth_pkts(ts) ==
    LET ts_var == encode_varint(ts)
        txid == <<232>> \o Repeat(255, 8) \o <<1>>
    IN  << build_packet(1, 128, 0, <<8, 4, 16, 13, 26, 4, 8, 1, 16, 4>>, 1, 1).val,
           build_packet(2, 128, 32, <<8, 5, 16, 14, 34, 2, 8, 2>>, 1, 1).val,
           build_packet(3, 128, 32,
                        <<8, 128, 1, 16, 15, 130, 8, 17, 8>> \o ts_var \o <<16>> \o txid,
                        1, 1).val >>

---------------------------------------------------------------------------
(* SpecPacket: build_packet applied to inputs drawn from bounded sets *)

SmallLen == 2

MaxPayloadLen == 255

PayloadLens == (0..SmallLen) \cup (252..MaxPayloadLen)

PayloadBytes == {0, 49, 255}

\* the ASCII digits "123456789", the usual CRC check string
CheckString == <<49, 50, 51, 52, 53, 54, 55, 56, 57>>

Payloads == {Repeat(b, n) : b \in PayloadBytes, n \in PayloadLens} \cup {CheckString}

\* (svc_hi, svc_lo) and (total_pkts, pkt_num) pairs tried
Routes == {<<128, 32>>, <<196, 0>>}

Fragments == {<<1, 1>>, <<3, 2>>}

PacketArgs ==
    {[seq |-> s, svc_hi |-> r[1], svc_lo |-> r[2], payload |-> p,
      total_pkts |-> f[1], pkt_num |-> f[2]] :
        s \in {0, 255, 256}, r \in Routes, p \in Payloads, f \in Fragments}

InitPacket ==
    /\ flow = "packet"
    /\ pc = "start"
    /\ args \in PacketArgs
    /\ ret = NoRet
    /\ writes = <<>>
    /\ seq = 0
    /\ magic = 0
    /\ exc = "none"
    /\ loc = <<>>

CallBuildPacket ==
    /\ flow = "packet" /\ pc = "start"
    /\ pc' = "build_packet"
    /\ ret' = build_packet(args.seq, args.svc_hi, args.svc_lo, args.payload,
                           args.total_pkts, args.pkt_num)
    /\ UNCHANGED <<flow, args, writes, seq, magic, exc, loc>>

\* the copies in the other three files take no total_pkts / pkt_num
CallBuildPacketAI ==
    /\ flow = "packet" /\ pc = "start"
    /\ args.total_pkts = 1 /\ args.pkt_num = 1
    /\ pc' = "build_packet_ai"
    /\ ret' = build_packet_ai(args.seq, args.svc_hi, args.svc_lo, args.payload)
    /\ UNCHANGED <<flow, args, writes, seq, magic, exc, loc>>

CallBuildPacketLLM ==
    /\ flow = "packet" /\ pc = "start"
    /\ args.total_pkts = 1 /\ args.pkt_num = 1
    /\ pc' = "build_packet_llm"
    /\ ret' = build_packet_llm(args.seq, args.svc_hi, args.svc_lo, args.payload)
    /\ UNCHANGED <<flow, args, writes, seq, magic, exc, loc>>

CallBuildPacketTP ==
    /\ flow = "packet" /\ pc = "start"
    /\ args.total_pkts = 1 /\ args.pkt_num = 1
    /\ pc' = "build_packet_tp"
    /\ ret' = build_packet_tp(args.seq, args.svc_hi, args.svc_lo, args.payload)
    /\ UNCHANGED <<flow, args, writes, seq, magic, exc, loc>>

NextPacket ==
    \/ CallBuildPacket
    \/ CallBuildPacketAI
    \/ CallBuildPacketLLM
    \/ CallBuildPacketTP

SpecPacket == InitPacket /\ [][NextPacket]_vars

---------------------------------------------------------------------------
(* Reference CRC-16/CCITT: the message is fed one bit at a time, most      *)
(* significant bit first, into a 16-bit shift register with feedback       *)
(* polynomial x^16 + x^12 + x^5 + 1 (0x1021), register preset to 0xFFFF.   *)

RefCrcBit(reg, bit) ==
    LET feedback == (((reg \div 32768) % 2) + bit) % 2
        shifted == (reg * 2) % 65536
    IN  IF feedback = 1 THEN Xor(shifted, 4129) ELSE shifted

RECURSIVE RefCrcByte(_, _, _)
\* bits k-1 .. 0 of byte, high bit first
RefCrcByte(reg, byte, k) ==
    IF k = 0 THEN reg
    ELSE LET r == RefCrcBit(reg, (byte \div (2 ^ (k - 1))) % 2)
         IN  Then(r, RefCrcByte(r, byte, k - 1))

RECURSIVE RefCrcRange(_, _, _, _)
RefCrcRange(data, lo, hi, reg) ==
    IF lo > hi THEN reg
    ELSE IF lo = hi THEN RefCrcByte(reg, data[lo], 8)
    ELSE LET mid == (lo + hi) \div 2
             left == RefCrcRange(data, lo, mid, reg)
         IN  Then(left, RefCrcRange(data, mid + 1, hi, left))

RefCrc16(data) == RefCrcRange(data, 1, Len(data), 65535)

BuiltPcs == {"build_packet", "build_packet_ai", "build_packet_llm", "build_packet_tp"}

PayloadOf(frame) == SubSeq(frame, 9, Len(frame) - 2)

TrailerOf(frame) == SubSeq(frame, Len(frame) - 1, Len(frame))

\* C1: for every sequence byte, service bytes and payload of at most 253
\* bytes, build_packet returns 10 + len(payload) bytes: the header
\* [0xAA, 0x21, seq, len+2, total_count, packet_index, svc_hi, svc_lo],
\* the payload, and the little-endian CRC-16/CCITT (init 0xFFFF, poly
\* 0x1021, unreflected) of the payload alone; FF FF for the empty payload,
\* and 0x29B1 for the check string "123456789".
C1_PacketLayout ==
    (flow = "packet" /\ pc \in BuiltPcs /\ IsByte(args.seq) /\ Len(args.payload) <= 253) =>
        LET n == Len(args.payload)
            crc == RefCrc16(args.payload)
        IN  /\ ret.exc = "none"
            /\ Len(ret.val) = 10 + n
            /\ SubSeq(ret.val, 1, 8) =
                 <<170, 33, args.seq, n + 2, args.total_pkts, args.pkt_num,
                   args.svc_hi, args.svc_lo>>
            /\ PayloadOf(ret.val) = args.payload
            /\ TrailerOf(ret.val) = <<crc % 256, crc \div 256>>
            /\ (args.payload = <<>> => TrailerOf(ret.val) = <<255, 255>>)
            /\ (args.payload = CheckString => TrailerOf(ret.val) = <<177, 41>>)

\* a 253-byte payload framed as fragment 2 of 3, and the empty payload
C1_Witness ==
    /\ flow = "packet" /\ pc = "build_packet"
    /\ Len(args.payload) = 253 /\ args.pkt_num = 2 /\ args.seq = 255
    /\ ret.exc = "none" /\ Len(ret.val) = 263

\* C3: build_packet called with a payload for which len(payload) + 2 > 255
\* fails with the error PayloadTooLarge and emits no frame; no frame is ever
\* emitted whose length byte disagrees with its payload length.
C3_PayloadTooLarge ==
    (flow = "packet" /\ pc \in BuiltPcs) =>
        /\ (Len(args.payload) + 2 > 255 =>
              ret.exc = "PayloadTooLarge" /\ ret.val = <<>>)
        /\ (ret.exc = "none" =>
              /\ ret.val[4] = Len(args.payload) + 2
              /\ Len(PayloadOf(ret.val)) = Len(args.payload))

---------------------------------------------------------------------------
(* SpecAuth: the handshake builders applied to clock readings *)

MaxClockTicks == 14

\* int(time.time()): values around each varint length step, and a run of
\* consecutive seconds
Timestamps ==
    {0, 1, 127, 128, 16383, 16384, 2097151, 2097152, 268435455, 268435456,
     2147483647} \cup {1793231164 + k : k \in 0..MaxClockTicks}

InitAuth ==
    /\ flow = "auth"
    /\ pc = "start"
    /\ args \in [timestamp : Timestamps]
    /\ ret = NoRet
    /\ writes = <<>>
    /\ seq = 0
    /\ magic = 0
    /\ exc = "none"
    /\ loc = <<>>

CallBuildAuthPackets ==
    /\ flow = "auth" /\ pc = "start"
    /\ pc' = "build_auth_packets"
    /\ ret' = Ok(build_auth_packets(args.timestamp))
    /\ UNCHANGED <<flow, args, writes, seq, magic, exc, loc>>

CallBuildAuthPacketsLLM ==
    /\ flow = "auth" /\ pc = "start"
    /\ pc' = "build_auth_packets_llm"
    /\ ret' = Ok(build_auth_packets_llm(args.timestamp))
    /\ UNCHANGED <<flow, args, writes, seq, magic, exc, loc>>

CallBuildAuthPacketsTP ==
    /\ flow = "auth" /\ pc = "start"
    /\ pc' = "build_auth_packets_tp"
    /\ ret' = Ok(build_auth_packets_tp(args.timestamp))
    /\ UNCHANGED <<flow, args, writes, seq, magic, exc, loc>>

CallAuthPkts ==
    /\ flow = "auth" /\ pc = "start"
    /\ pc' = "auth_pkts"
    /\ ret' = Ok(auth_pkts(args.timestamp))
    /\ UNCHANGED <<flow, args, writes, seq, magic, exc, loc>>

NextAuth ==
    \/ CallBuildAuthPackets
    \/ CallBuildAuthPacketsLLM
    \/ CallBuildAuthPacketsTP
    \/ CallAuthPkts

SpecAuth == InitAuth /\ [][NextAuth]_vars

\* the wire format of one frame: marker bytes, length byte = payload
\* length + 2 = frame length - 8, trailer = little-endian CRC of the payload
WireFormatOK(frame) ==
    /\ Len(frame) >= 10
    /\ frame[1] = 170 /\ frame[2] = 33
    /\ frame[4] = Len(frame) - 8
    /\ TrailerOf(frame) =
         <<RefCrc16(PayloadOf(frame)) % 256, RefCrc16(PayloadOf(frame)) \div 256>>

RECURSIVE DecodeVarint(_)
\* the value of a base-128 little-endian group sequence (continuation bits dropped)
DecodeVarint(bs) ==
    IF bs = <<>> THEN 0 ELSE (bs[1] % 128) + 128 * DecodeVarint(Tail(bs))

\* bs is one varint: continuation bit on every byte but the last
IsVarint(bs) ==
    /\ Len(bs) >= 1
    /\ \A i \in 1..Len(bs) : (bs[i] >= 128) <=> (i < Len(bs))

\* the time-sync payload: 9 fixed bytes whose 5th is the message index idx,
\* the timestamp varint, the tag 0x10, the 10-byte transaction id
IsTimeSync(payload, idx, timestamp) ==
    LET n == Len(payload)
        varint == SubSeq(payload, 10, n - 11)
    IN  /\ n >= 21
        /\ SubSeq(payload, 1, 9) = <<8, 128, 1, 16, idx, 130, 8, 17, 8>>
        /\ IsVarint(varint) /\ DecodeVarint(varint) = timestamp
        /\ payload[n - 10] = 16
        /\ SubSeq(payload, n - 9, n) = <<232, 255, 255, 255, 255, 255, 255, 255, 255, 1>>

HandshakeFrameOK(frame, i) ==
    /\ WireFormatOK(frame)
    /\ frame[3] = i
    /\ frame[5] = 1 /\ frame[6] = 1
    /\ <<frame[7], frame[8]>> \in {<<128, 0>>, <<128, 32>>}

\* C9: for any timestamp build_auth_packets returns exactly 7 frames with
\* sequence bytes 1..7 in order, total_count = packet_index = 1 and service
\* bytes (0x80,0x00) or (0x80,0x20); frames 3 and 7 carry the same varint of
\* the timestamp and, after the tag byte 0x10, the transaction id
\* E8 FF FF FF FF FF FF FF FF 01; authenticate's list is exactly 3 frames
\* with sequence bytes 1..3 built the same way.
C9_Handshake ==
    /\ (flow = "auth" /\ pc \in {"build_auth_packets", "build_auth_packets_llm",
                                 "build_auth_packets_tp"}) =>
          /\ Len(ret.val) = 7
          /\ \A i \in 1..7 : HandshakeFrameOK(ret.val[i], i)
          /\ IsTimeSync(PayloadOf(ret.val[3]), 15, args.timestamp)
          /\ IsTimeSync(PayloadOf(ret.val[7]), 19, args.timestamp)
          /\ SubSeq(PayloadOf(ret.val[3]), 10, Len(PayloadOf(ret.val[3])))
               = SubSeq(PayloadOf(ret.val[7]), 10, Len(PayloadOf(ret.val[7])))
    /\ (flow = "auth" /\ pc = "auth_pkts") =>
          /\ Len(ret.val) = 3
          /\ \A i \in 1..3 : HandshakeFrameOK(ret.val[i], i)
          /\ IsTimeSync(PayloadOf(ret.val[3]), 15, args.timestamp)

\* the seven frames built for a five-byte timestamp
C9_Witness ==
    /\ flow = "auth" /\ pc = "build_auth_packets"
    /\ args.timestamp = 1793231164
    /\ Len(ret.val) = 7 /\ Len(ret.val[7]) = 35

---------------------------------------------------------------------------
(* Text: str.encode('utf-8') on a sequence of Unicode scalar values *)

utf8_char(c) ==
    IF c < 128 THEN <<c>>
    ELSE IF c < 2048 THEN <<192 + (c \div 64), 128 + (c % 64)>>
    ELSE IF c < 65536
         THEN <<224 + (c \div 4096), 128 + ((c \div 64) % 64), 128 + (c % 64)>>
         ELSE <<240 + (c \div 262144), 128 + ((c \div 4096) % 64),
                128 + ((c \div 64) % 64), 128 + (c % 64)>>

RECURSIVE utf8_range(_, _, _)
\* the encoding of text[lo..hi], characters in order
utf8_range(text, lo, hi) ==
    IF lo > hi THEN <<>>
    ELSE IF lo = hi THEN utf8_char(text[lo])
    ELSE LET mid == (lo + hi) \div 2
         IN  utf8_range(text, lo, mid) \o utf8_range(text, mid + 1, hi)

utf8(text) == utf8_range(text, 1, Len(text))

---------------------------------------------------------------------------
(* Even AI encoders: even_ai.py *)

build_ctrl_enter(seq_, magic_) ==
    LET payload == bytes_(<<8, 1, 16, magic_, 26, 2, 8, 2>>)
    IN  IF payload.exc # "none" THEN payload
        ELSE build_packet_ai(seq_, 7, 32, payload.val)

build_ctrl_exit(seq_, magic_) ==
    LET payload == bytes_(<<8, 1, 16, magic_, 26, 2, 8, 3>>)
    IN  IF payload.exc # "none" THEN payload
        ELSE build_packet_ai(seq_, 7, 32, payload.val)

build_ask(seq_, magic_, text) ==
    LET text_bytes == utf8(text)
        askinfo == <<8, 0, 16, 0, 24, 0, 34>> \o encode_varint_ai(Len(text_bytes)) \o text_bytes
        head == bytes_(<<8, 3, 16, magic_, 42>>)
    IN  IF head.exc # "none" THEN head
        ELSE build_packet_ai(seq_, 7, 32,
                             head.val \o encode_varint_ai(Len(askinfo)) \o askinfo)

build_reply(seq_, magic_, text) ==
    LET text_bytes == utf8(text)
        replyinfo == <<8, 0, 16, 0, 24, 0, 34>> \o encode_varint_ai(Len(text_bytes)) \o text_bytes
        head == bytes_(<<8, 5, 16, magic_, 58>>)
    IN  IF head.exc # "none" THEN head
        ELSE build_packet_ai(seq_, 7, 32,
                             head.val \o encode_varint_ai(Len(replyinfo)) \o replyinfo)

(* Even AI encoders as copied into llm_teleprompter.py *)

build_ctrl_enter_llm(seq_, magic_) ==
    LET payload == bytes_(<<8, 1, 16, magic_, 26, 2, 8, 2>>)
    IN  IF payload.exc # "none" THEN payload
        ELSE build_packet_llm(seq_, 7, 32, payload.val)

build_ask_llm(seq_, magic_, text) ==
    LET text_bytes == utf8(text)
        askinfo == <<8, 0, 16, 0, 24, 0, 34>> \o encode_varint_llm(Len(text_bytes)) \o text_bytes
        head == bytes_(<<8, 3, 16, magic_, 42>>)
    IN  IF head.exc # "none" THEN head
        ELSE build_packet_llm(seq_, 7, 32,
                              head.val \o encode_varint_llm(Len(askinfo)) \o askinfo)

build_reply_llm(seq_, magic_, text) ==
    LET text_bytes == utf8(text)
        replyinfo == <<8, 0, 16, 0, 24, 0, 34>> \o encode_varint_llm(Len(text_bytes)) \o text_bytes
        head == bytes_(<<8, 5, 16, magic_, 58>>)
    IN  IF head.exc # "none" THEN head
        ELSE build_packet_llm(seq_, 7, 32,
                              head.val \o encode_varint_llm(Len(replyinfo)) \o replyinfo)

\* one pass of `while len(encoded) > max_bytes - 3: text = text[:-1]`
\* (text itself once the condition is false)
truncate_step(text, max_bytes) ==
    IF Len(utf8(text)) > max_bytes - 3 THEN SubSeq(text, 1, Len(text) - 1) ELSE text

RECURSIVE truncate_passes(_, _, _)
\* n passes of the loop, first half then second half
truncate_passes(text, max_bytes, n) ==
    IF n = 0 THEN text
    ELSE IF n = 1 THEN truncate_step(text, max_bytes)
    ELSE LET first == truncate_passes(text, max_bytes, n \div 2)
         IN  Then(first, truncate_passes(first, max_bytes, n - (n \div 2)))

\* the loop run to its end: len(text) passes empty the text, and on the
\* empty text text[:-1] changes nothing, so a condition still true then
\* stays true for ever ("hangs")
truncate_loop(text, max_bytes) ==
    LET t == truncate_passes(text, max_bytes, Len(text))
    IN  IF Len(utf8(t)) > max_bytes - 3 THEN Raise("hangs")
        ELSE Ok(t \o <<46, 46, 46>>)

truncate_for_display(text, max_bytes) ==
    IF Len(utf8(text)) <= max_bytes THEN Ok(text)
    ELSE truncate_loop(text, max_bytes)

---------------------------------------------------------------------------
(* Teleprompter encoders: teleprompter.py *)

display_config_blob ==
    <<8, 1, 18, 19, 8, 2, 16, 144, 78, 29, 0, 224, 148, 68, 37, 0, 0, 0, 0, 40, 0,
      48, 0, 18, 19, 8, 3, 16, 13, 15, 29, 0, 64, 141, 68, 37, 0, 0, 0, 0, 40, 0,
      48, 0, 18, 18, 8, 4, 16, 0, 29, 0, 0, 136, 66, 37, 0, 0, 0, 0, 40, 0, 48, 0,
      18, 18, 8, 5, 16, 0, 29, 0, 0, 146, 66, 37, 0, 0, 162, 66, 40, 0, 48, 0,
      18, 18, 8, 6, 16, 0, 29, 0, 0, 198, 66, 37, 0, 0, 196, 66, 40, 0, 48, 0, 24, 0>>

build_display_config(seq_, msg_id) ==
    LET config == display_config_blob
        payload == <<8, 2, 16>> \o encode_varint_tp(msg_id) \o <<34, 106>> \o config
    IN  build_packet_tp(seq_, 14, 32, payload)

Max2(a, b) == IF a >= b THEN a ELSE b

build_teleprompter_init(seq_, msg_id, total_lines, manual_mode) ==
    LET mode == IF manual_mode THEN 0 ELSE 1
        content_height == Max2(1, (total_lines * 2665) \div 140)
        display == <<8, 1, 16, 0, 24, 0, 32, 139, 2>>
                   \o <<40>> \o encode_varint_tp(content_height)
                   \o <<48, 230, 1>>
                   \o <<56, 142, 10>>
                   \o <<64, 5, 72, mode>>
        settings_head == bytes_(<<8, 1, 18, Len(display)>>)
        settings == settings_head.val \o display
        payload_head == bytes_(<<26, Len(settings)>>)
        payload == <<8, 1, 16>> \o encode_varint_tp(msg_id) \o payload_head.val \o settings
    IN  IF settings_head.exc # "none" THEN settings_head
        ELSE IF payload_head.exc # "none" THEN payload_head
        ELSE build_packet_tp(seq_, 6, 32, payload)

build_content_page(seq_, msg_id, page_num, text) ==
    LET text_bytes == utf8(<<10>> \o text)
        inner == <<8>> \o encode_varint_tp(page_num)
                 \o <<16, 10>>
                 \o <<26>> \o encode_varint_tp(Len(text_bytes)) \o text_bytes
        content == <<42>> \o encode_varint_tp(Len(inner)) \o inner
        payload == <<8, 3, 16>> \o encode_varint_tp(msg_id) \o content
    IN  build_packet_tp(seq_, 6, 32, payload)

build_marker(seq_, msg_id) ==
    LET payload == <<8, 255, 1, 16>> \o encode_varint_tp(msg_id) \o <<106, 4, 8, 0, 16, 6>>
    IN  build_packet_tp(seq_, 6, 32, payload)

\* the sync message routed like the content messages
build_sync_on_content_route(seq_, msg_id) ==
    LET payload == <<8, 14, 16>> \o encode_varint_tp(msg_id) \o <<106, 0>>
    IN  build_packet_tp(seq_, 6, 32, payload)

build_sync(seq_, msg_id) ==
    LET payload == <<8, 14, 16>> \o encode_varint_tp(msg_id) \o <<106, 0>>
    IN  build_packet_tp(seq_, 128, 0, payload)

---------------------------------------------------------------------------
(* Text formatting: teleprompter.py format_text *)

\* the characters str.split() and str.strip() treat as whitespace
Whitespace ==
    {9, 10, 11, 12, 13, 28, 29, 30, 31, 32, 133, 160, 5760, 8232, 8233, 8239,
     8287, 12288} \cup (8192..8202)

\* str.strip()
strip(s) ==
    LET keep == {i \in 1..Len(s) : s[i] \notin Whitespace}
    IN  IF keep = {} THEN <<>>
        ELSE LET first == CHOOSE i \in keep : \A j \in 1..(i - 1) : s[j] \in Whitespace
                 last == CHOOSE i \in keep : \A j \in (i + 1)..Len(s) : s[j] \in Whitespace
             IN  SubSeq(s, first, last)

RECURSIVE split_range(_, _, _, _)
\* the pieces of text[lo..hi] between the characters of seps, empty pieces kept
split_range(text, lo, hi, seps) ==
    IF lo > hi THEN << <<>> >>
    ELSE IF lo = hi
         THEN IF text[lo] \in seps THEN << <<>>, <<>> >> ELSE << <<text[lo]>> >>
    ELSE LET mid == (lo + hi) \div 2
             l == split_range(text, lo, mid, seps)
             r == split_range(text, mid + 1, hi, seps)
         IN  SubSeq(l, 1, Len(l) - 1) \o << Last(l) \o Head(r) >> \o Tail(r)

\* text.split("\n")
split_newline(text) == split_range(text, 1, Len(text), {10})

\* line.split(): the maximal runs of non-whitespace
split_words(line) ==
    SelectSeq(split_range(line, 1, Len(line), Whitespace), LAMBDA w : w # <<>>)

\* text.replace("\\n", "\n"): every backslash followed by n becomes a newline
replace_escaped_newlines(text) ==
    LET n == Len(text)
        hit(i) == i >= 1 /\ i < n /\ text[i] = 92 /\ text[i + 1] = 110
        marked == [i \in 1..n |-> <<i, IF hit(i) THEN 10 ELSE text[i]>>]
        kept == SelectSeq(marked, LAMBDA m : ~hit(m[1] - 1))
    IN  [k \in 1..Len(kept) |-> kept[k][2]]

\* the pass that starts a new line without keeping the line it ends
wrap_word_ignores_word_length(st, word, chars_per_line) ==
    LET out == st[1]
        current == st[2]
    IN  IF Len(current) + 1 > chars_per_line
        THEN <<IF current # <<>> THEN Append(out, strip(current)) ELSE out, word \o <<32>>>>
        ELSE <<out, current \o word \o <<32>>>>

wrap_word_loses_current(st, word, chars_per_line) ==
    LET out == st[1]
        current == st[2]
    IN  IF Len(current) + Len(word) + 1 > chars_per_line
        THEN <<out, word \o <<32>>>>
        ELSE <<out, current \o word \o <<32>>>>

\* one pass of `for word in words`: st = <<wrapped lines added so far, current>>
wrap_word(st, word, chars_per_line) ==
    LET out == st[1]
        current == st[2]
    IN  IF Len(current) + Len(word) + 1 > chars_per_line
        THEN <<IF current # <<>> THEN Append(out, strip(current)) ELSE out, word \o <<32>>>>
        ELSE <<out, current \o word \o <<32>>>>

RECURSIVE wrap_words(_, _, _, _, _)
\* the loop over words[lo..hi] entered in state st, first half then second half
wrap_words(words, lo, hi, st, chars_per_line) ==
    IF lo > hi THEN st
    ELSE IF lo = hi THEN wrap_word(st, words[lo], chars_per_line)
    ELSE LET mid == (lo + hi) \div 2
             l == wrap_words(words, lo, mid, st, chars_per_line)
         IN  Then(l, wrap_words(words, mid + 1, hi, l, chars_per_line))

\* what one line of the input adds to wrapped
wrap_line(line, chars_per_line) ==
    IF strip(line) = <<>> THEN << <<>> >>
    ELSE LET words == split_words(line)
             r == wrap_words(words, 1, Len(words), << <<>>, <<>> >>, chars_per_line)
         IN  IF strip(r[2]) # <<>> THEN Append(r[1], strip(r[2])) ELSE r[1]

RECURSIVE wrap_lines(_, _, _, _)
\* the loop `for line in text.split("\n")` over lines[lo..hi]
wrap_lines(lines, lo, hi, chars_per_line) ==
    IF lo > hi THEN <<>>
    ELSE IF lo = hi THEN wrap_line(lines[lo], chars_per_line)
    ELSE LET mid == (lo + hi) \div 2
         IN  wrap_lines(lines, lo, mid, chars_per_line)
             \o wrap_lines(lines, mid + 1, hi, chars_per_line)

RECURSIVE join_newline(_, _, _)
\* "\n".join(lines[lo..hi])
join_newline(lines, lo, hi) ==
    IF lo > hi THEN <<>>
    ELSE IF lo = hi THEN lines[lo]
    ELSE LET mid == (lo + hi) \div 2
         IN  join_newline(lines, lo, mid) \o <<10>> \o join_newline(lines, mid + 1, hi)

\* the page without the " \n" after its last line
page_text_of_unterminated(page_lines) == join_newline(page_lines, 1, Len(page_lines))

\* page_text = "\n".join(page_lines) + " \n"
page_text_of(page_lines) == join_newline(page_lines, 1, Len(page_lines)) \o <<32, 10>>

page_too_long(page_lines, max_text_bytes) ==
    Len(utf8(<<10>> \o page_text_of(page_lines))) > max_text_bytes /\ page_lines # <<>>

\* one pass of the byte validation loop: the last line that has more than
\* one character loses its last character; no such line, no change
shrink_step(page_lines, max_text_bytes) ==
    IF page_too_long(page_lines, max_text_bytes)
    THEN LET long == {k \in 1..Len(page_lines) : Len(page_lines[k]) > 1}
         IN  IF long = {} THEN page_lines
             ELSE LET k == CHOOSE x \in long : \A y \in long : y <= x
                  IN  [page_lines EXCEPT
                         ![k] = SubSeq(page_lines[k], 1, Len(page_lines[k]) - 1)]
    ELSE page_lines

RECURSIVE shrink_passes(_, _, _)
shrink_passes(page_lines, max_text_bytes, n) ==
    IF n = 0 THEN page_lines
    ELSE IF n = 1 THEN shrink_step(page_lines, max_text_bytes)
    ELSE LET first == shrink_passes(page_lines, max_text_bytes, n \div 2)
         IN  Then(first, shrink_passes(first, max_text_bytes, n - (n \div 2)))

RECURSIVE total_chars(_, _, _)
total_chars(page_lines, lo, hi) ==
    IF lo > hi THEN 0
    ELSE IF lo = hi THEN Len(page_lines[lo])
    ELSE total_chars(page_lines, lo, (lo + hi) \div 2)
         + total_chars(page_lines, ((lo + hi) \div 2) + 1, hi)

\* the byte validation loop run to its end.  A pass that changes something
\* removes one character, so after as many passes as the page has
\* characters no line has more than one; a page still too long then is
\* never changed again and the loop never ends ("hangs")
shrink_page(page_lines, max_text_bytes) ==
    LET final == shrink_passes(page_lines, max_text_bytes,
                               total_chars(page_lines, 1, Len(page_lines)))
    IN  IF page_too_long(final, max_text_bytes) THEN Raise("hangs")
        ELSE Ok(page_text_of(final))

\* format_text; max_text_bytes = 0 stands for None (both skip the validation).
\* Returns Ok(list of pages), or "hangs" when a validation loop never ends.
format_text(text, chars_per_line, lines_per_page, max_text_bytes) ==
    LET text2 == replace_escaped_newlines(text)
        lines == split_newline(text2)
        wrapped0 == wrap_lines(lines, 1, Len(lines), chars_per_line)
        wrapped1 == IF wrapped0 = <<>> THEN <<text2>> ELSE wrapped0
        wrapped == wrapped1 \o Repeat(<<32>>, Max2(0, lines_per_page - Len(wrapped1)))
        npages == (Len(wrapped) + lines_per_page - 1) \div lines_per_page
        page_lines(p) ==
            [j \in 1..lines_per_page |->
                IF (p - 1) * lines_per_page + j <= Len(wrapped)
                THEN wrapped[(p - 1) * lines_per_page + j] ELSE <<32>>]
        page(p) ==
            IF max_text_bytes # 0 THEN shrink_page(page_lines(p), max_text_bytes)
            ELSE Ok(page_text_of(page_lines(p)))
        pages == [p \in 1..npages |-> page(p)]
        padding == Repeat(page_text_of(Repeat(<<32>>, lines_per_page)), Max2(0, 14 - npages))
    IN  IF \E p \in 1..npages : pages[p].exc # "none" THEN Raise("hangs")
        ELSE Ok([p \in 1..npages |-> pages[p].val] \o padding)

---------------------------------------------------------------------------
(* CRC-32C and the file check header: notification_trunc.py                *)
(* A 32-bit value is held as its four bytes, most significant first,       *)
(* because integers here stop at 2^31 - 1.                                 *)

\* CRC32C_TABLE, entry i of the source at index i + 1
CRC32C_TABLE ==
    << <<0, 0, 0, 0>>, <<30, 220, 111, 65>>, <<61, 184, 222, 130>>, <<35, 100, 177, 195>>,
       <<123, 113, 189, 4>>, <<101, 173, 210, 69>>, <<70, 201, 99, 134>>, <<88, 21, 12, 199>>,
       <<246, 227, 122, 8>>, <<232, 63, 21, 73>>, <<203, 91, 164, 138>>, <<213, 135, 203, 203>>,
       <<141, 146, 199, 12>>, <<147, 78, 168, 77>>, <<176, 42, 25, 142>>, <<174, 246, 118, 207>>,
       <<243, 26, 155, 81>>, <<237, 198, 244, 16>>, <<206, 162, 69, 211>>, <<208, 126, 42, 146>>,
       <<136, 107, 38, 85>>, <<150, 183, 73, 20>>, <<181, 211, 248, 215>>, <<171, 15, 151, 150>>,
       <<5, 249, 225, 89>>, <<27, 37, 142, 24>>, <<56, 65, 63, 219>>, <<38, 157, 80, 154>>,
       <<126, 136, 92, 93>>, <<96, 84, 51, 28>>, <<67, 48, 130, 223>>, <<93, 236, 237, 158>>,
       <<248, 233, 89, 227>>, <<230, 53, 54, 162>>, <<197, 81, 135, 97>>, <<219, 141, 232, 32>>,
       <<131, 152, 228, 231>>, <<157, 68, 139, 166>>, <<190, 32, 58, 101>>, <<160, 252, 85, 36>>,
       <<14, 10, 35, 235>>, <<16, 214, 76, 170>>, <<51, 178, 253, 105>>, <<45, 110, 146, 40>>,
       <<117, 123, 158, 239>>, <<107, 167, 241, 174>>, <<72, 195, 64, 109>>, <<86, 31, 47, 44>>,
       <<11, 243, 194, 178>>, <<21, 47, 173, 243>>, <<54, 75, 28, 48>>, <<40, 151, 115, 113>>,
       <<112, 130, 127, 182>>, <<110, 94, 16, 247>>, <<77, 58, 161, 52>>, <<83, 230, 206, 117>>,
       <<253, 16, 184, 186>>, <<227, 204, 215, 251>>, <<192, 168, 102, 56>>, <<222, 116, 9, 121>>,
       <<134, 97, 5, 190>>, <<152, 189, 106, 255>>, <<187, 217, 219, 60>>, <<165, 5, 180, 125>>,
       <<239, 14, 220, 135>>, <<241, 210, 179, 198>>, <<210, 182, 2, 5>>, <<204, 106, 109, 68>>,
       <<148, 127, 97, 131>>, <<138, 163, 14, 194>>, <<169, 199, 191, 1>>, <<183, 27, 208, 64>>,
       <<25, 237, 166, 143>>, <<7, 49, 201, 206>>, <<36, 85, 120, 13>>, <<58, 137, 23, 76>>,
       <<98, 156, 27, 139>>, <<124, 64, 116, 202>>, <<95, 36, 197, 9>>, <<65, 248, 170, 72>>,
       <<28, 20, 71, 214>>, <<2, 200, 40, 151>>, <<33, 172, 153, 84>>, <<63, 112, 246, 21>>,
       <<103, 101, 250, 210>>, <<121, 185, 149, 147>>, <<90, 221, 36, 80>>, <<68, 1, 75, 17>>,
       <<234, 247, 61, 222>>, <<244, 43, 82, 159>>, <<215, 79, 227, 92>>, <<201, 147, 140, 29>>,
       <<145, 134, 128, 218>>, <<143, 90, 239, 155>>, <<172, 62, 94, 88>>, <<178, 226, 49, 25>>,
       <<23, 231, 133, 100>>, <<9, 59, 234, 37>>, <<42, 95, 91, 230>>, <<52, 131, 52, 167>>,
       <<108, 150, 56, 96>>, <<114, 74, 87, 33>>, <<81, 46, 230, 226>>, <<79, 242, 137, 163>>,
       <<225, 4, 255, 108>>, <<255, 216, 144, 45>>, <<220, 188, 33, 238>>, <<194, 96, 78, 175>>,
       <<154, 117, 66, 104>>, <<132, 169, 45, 41>>, <<167, 205, 156, 234>>, <<185, 17, 243, 171>>,
       <<228, 253, 30, 53>>, <<250, 33, 113, 116>>, <<217, 69, 192, 183>>, <<199, 153, 175, 246>>,
       <<159, 140, 163, 49>>, <<129, 80, 204, 112>>, <<162, 52, 125, 179>>, <<188, 232, 18, 242>>,
       <<18, 30, 100, 61>>, <<12, 194, 11, 124>>, <<47, 166, 186, 191>>, <<49, 122, 213, 254>>,
       <<105, 111, 217, 57>>, <<119, 179, 182, 120>>, <<84, 215, 7, 187>>, <<74, 11, 104, 250>>,
       <<192, 193, 214, 79>>, <<222, 29, 185, 14>>, <<253, 121, 8, 205>>, <<227, 165, 103, 140>>,
       <<187, 176, 107, 75>>, <<165, 108, 4, 10>>, <<134, 8, 181, 201>>, <<152, 212, 218, 136>>,
       <<54, 34, 172, 71>>, <<40, 254, 195, 6>>, <<11, 154, 114, 197>>, <<21, 70, 29, 132>>,
       <<77, 83, 17, 67>>, <<83, 143, 126, 2>>, <<112, 235, 207, 193>>, <<110, 55, 160, 128>>,
       <<51, 219, 77, 30>>, <<45, 7, 34, 95>>, <<14, 99, 147, 156>>, <<16, 191, 252, 221>>,
       <<72, 170, 240, 26>>, <<86, 118, 159, 91>>, <<117, 18, 46, 152>>, <<107, 206, 65, 217>>,
       <<197, 56, 55, 22>>, <<219, 228, 88, 87>>, <<248, 128, 233, 148>>, <<230, 92, 134, 213>>,
       <<190, 73, 138, 18>>, <<160, 149, 229, 83>>, <<131, 241, 84, 144>>, <<157, 45, 59, 209>>,
       <<56, 40, 143, 172>>, <<38, 244, 224, 237>>, <<5, 144, 81, 46>>, <<27, 76, 62, 111>>,
       <<67, 89, 50, 168>>, <<93, 133, 93, 233>>, <<126, 225, 236, 42>>, <<96, 61, 131, 107>>,
       <<206, 203, 245, 164>>, <<208, 23, 154, 229>>, <<243, 115, 43, 38>>, <<237, 175, 68, 103>>,
       <<181, 186, 72, 160>>, <<171, 102, 39, 225>>, <<136, 2, 150, 34>>, <<150, 222, 249, 99>>,
       <<203, 50, 20, 253>>, <<213, 238, 123, 188>>, <<246, 138, 202, 127>>, <<232, 86, 165, 62>>,
       <<176, 67, 169, 249>>, <<174, 159, 198, 184>>, <<141, 251, 119, 123>>, <<147, 39, 24, 58>>,
       <<61, 209, 110, 245>>, <<35, 13, 1, 180>>, <<0, 105, 176, 119>>, <<30, 181, 223, 54>>,
       <<70, 160, 211, 241>>, <<88, 124, 188, 176>>, <<123, 24, 13, 115>>, <<101, 196, 98, 50>>,
       <<47, 207, 10, 200>>, <<49, 19, 101, 137>>, <<18, 119, 212, 74>>, <<12, 171, 187, 11>>,
       <<84, 190, 183, 204>>, <<74, 98, 216, 141>>, <<105, 6, 105, 78>>, <<119, 218, 6, 15>>,
       <<217, 44, 112, 192>>, <<199, 240, 31, 129>>, <<228, 148, 174, 66>>, <<250, 72, 193, 3>>,
       <<162, 93, 205, 196>>, <<188, 129, 162, 133>>, <<159, 229, 19, 70>>, <<129, 57, 124, 7>>,
       <<220, 213, 145, 153>>, <<194, 9, 254, 216>>, <<225, 109, 79, 27>>, <<255, 177, 32, 90>>,
       <<167, 164, 44, 157>>, <<185, 120, 67, 220>>, <<154, 28, 242, 31>>, <<132, 192, 157, 94>>,
       <<42, 54, 235, 145>>, <<52, 234, 132, 208>>, <<23, 142, 53, 19>>, <<9, 82, 90, 82>>,
       <<81, 71, 86, 149>>, <<79, 155, 57, 212>>, <<108, 255, 136, 23>>, <<114, 35, 231, 86>>,
       <<215, 38, 83, 43>>, <<201, 250, 60, 106>>, <<234, 158, 141, 169>>, <<244, 66, 226, 232>>,
       <<172, 87, 238, 47>>, <<178, 139, 129, 110>>, <<145, 239, 48, 173>>, <<143, 51, 95, 236>>,
       <<33, 197, 41, 35>>, <<63, 25, 70, 98>>, <<28, 125, 247, 161>>, <<2, 161, 152, 224>>,
       <<90, 180, 148, 39>>, <<68, 104, 251, 102>>, <<103, 12, 74, 165>>, <<121, 208, 37, 228>>,
       <<36, 60, 200, 122>>, <<58, 224, 167, 59>>, <<25, 132, 22, 248>>, <<7, 88, 121, 185>>,
       <<95, 77, 117, 126>>, <<65, 145, 26, 63>>, <<98, 245, 171, 252>>, <<124, 41, 196, 189>>,
       <<210, 223, 178, 114>>, <<204, 3, 221, 51>>, <<239, 103, 108, 240>>, <<241, 187, 3, 177>>,
       <<169, 174, 15, 118>>, <<183, 114, 96, 55>>, <<148, 22, 209, 244>>, <<138, 202, 190, 181>> >>

\* the table step indexed by the low byte of the register
crc32c_byte_low_index(crc, b) ==
    LET idx == Xor(b, crc[4])
        t == CRC32C_TABLE[idx + 1]
    IN  <<Xor(crc[2], t[1]), Xor(crc[3], t[2]), Xor(crc[4], t[3]), t[4]>>

\* one pass of `for b in data`: idx = b ^ ((crc >> 24) & 0xFF);
\* crc = ((crc << 8) & 0xFFFFFFFF) ^ CRC32C_TABLE[idx]
crc32c_byte(crc, b) ==
    LET idx == Xor(b, crc[1])
        t == CRC32C_TABLE[idx + 1]
    IN  <<Xor(crc[2], t[1]), Xor(crc[3], t[2]), Xor(crc[4], t[3]), t[4]>>

RECURSIVE crc32c_from(_, _, _, _)
\* the loop over data[lo..hi] entered with crc, first half then second half
crc32c_from(data, lo, hi, crc) ==
    IF lo > hi THEN crc
    ELSE IF lo = hi THEN crc32c_byte(crc, data[lo])
    ELSE LET mid == (lo + hi) \div 2
             left == crc32c_from(data, lo, mid, crc)
         IN  Then(left, crc32c_from(data, mid + 1, hi, left))

calc_crc32c(data) == crc32c_from(data, 1, Len(data), <<0, 0, 0, 0>>)

\* the fields with the length and the CRC left unshifted
calc_file_check_fields_unshifted(data) ==
    LET crc == calc_crc32c(data)
    IN  [size |-> Len(data), checksum |-> crc, extra |-> crc[1]]

\* (size, checksum, extra): len(data) * 256, (crc << 8) & 0xFFFFFFFF as four
\* bytes most significant first, (crc >> 24) & 0xFF
calc_file_check_fields(data) ==
    LET crc == calc_crc32c(data)
    IN  [size |-> Len(data) * 256,
         checksum |-> <<crc[2], crc[3], crc[4], 0>>,
         extra |-> crc[1]]

\* struct.pack('<I', n) for an integer n
pack_u32_le(n) ==
    <<n % 256, (n \div 256) % 256, (n \div 65536) % 256, (n \div 16777216) % 256>>

\* struct.pack('<I', v) for a value held as four bytes
pack_bytes_le(v) == <<v[4], v[3], v[2], v[1]>>

---------------------------------------------------------------------------
(* Notification JSON: notification_trunc.py *)

MAX_JSON_SIZE == 234

\* text[:n] with Python's slice rules (a negative n counts from the end)
py_prefix(text, n) ==
    IF n >= 0 THEN SubSeq(text, 1, IF n < Len(text) THEN n ELSE Len(text))
    ELSE SubSeq(text, 1, Max2(0, Len(text) + n))

truncate_field(text, max_chars) ==
    IF Len(text) <= max_chars THEN text
    ELSE IF max_chars <= 3 THEN py_prefix(text, max_chars)
    ELSE py_prefix(text, max_chars - 3) \o <<46, 46, 46>>

RECURSIVE decimal(_)
\* str(n) for n >= 0, as ASCII
decimal(n) == IF n < 10 THEN <<48 + n>> ELSE decimal(n \div 10) \o <<48 + (n % 10)>>

hex_digit(d) == IF d < 10 THEN 48 + d ELSE 87 + d

\* \uXXXX, lower-case hexadecimal
json_u_escape(c) ==
    <<92, 117, hex_digit(c \div 4096), hex_digit((c \div 256) % 16),
      hex_digit((c \div 16) % 16), hex_digit(c % 16)>>

\* json.dumps of one character with ensure_ascii (the default)
json_char(c) ==
    IF c = 34 THEN <<92, 34>>
    ELSE IF c = 92 THEN <<92, 92>>
    ELSE IF c = 10 THEN <<92, 110>>
    ELSE IF c = 13 THEN <<92, 114>>
    ELSE IF c = 9 THEN <<92, 116>>
    ELSE IF c = 8 THEN <<92, 98>>
    ELSE IF c = 12 THEN <<92, 102>>
    ELSE IF c >= 32 /\ c <= 126 THEN <<c>>
    ELSE IF c < 65536 THEN json_u_escape(c)
    ELSE json_u_escape(55296 + (((c - 65536) \div 1024) % 1024))
         \o json_u_escape(56320 + ((c - 65536) % 1024))

RECURSIVE json_chars(_, _, _)
json_chars(text, lo, hi) ==
    IF lo > hi THEN <<>>
    ELSE IF lo = hi THEN json_char(text[lo])
    ELSE LET mid == (lo + hi) \div 2
         IN  json_chars(text, lo, mid) \o json_chars(text, mid + 1, hi)

\* json.dumps of a str
json_string(text) == <<34>> \o json_chars(text, 1, Len(text)) \o <<34>>

\* {"android_notification":{"msg_id":
json_open ==
    <<123, 34, 97, 110, 100, 114, 111, 105, 100, 95, 110, 111, 116, 105,
      102, 105, 99, 97, 116, 105, 111, 110, 34, 58, 123, 34, 109, 115, 103,
      95, 105, 100, 34, 58>>

\* ,"action":0,"app_identifier":
json_action ==
    <<44, 34, 97, 99, 116, 105, 111, 110, 34, 58, 48, 44, 34, 97, 112, 112,
      95, 105, 100, 101, 110, 116, 105, 102, 105, 101, 114, 34, 58>>

\* ,"title":
json_title ==
    <<44, 34, 116, 105, 116, 108, 101, 34, 58>>

\* ,"subtitle":
json_subtitle ==
    <<44, 34, 115, 117, 98, 116, 105, 116, 108, 101, 34, 58>>

\* ,"message":
json_message ==
    <<44, 34, 109, 101, 115, 115, 97, 103, 101, 34, 58>>

\* ,"time_s":
json_time ==
    <<44, 34, 116, 105, 109, 101, 95, 115, 34, 58>>

\* ,"date":
json_date ==
    <<44, 34, 100, 97, 116, 101, 34, 58>>

\* ,"display_name":
json_display ==
    <<44, 34, 100, 105, 115, 112, 108, 97, 121, 95, 110, 97, 109, 101, 34,
      58>>

\* }}
json_close ==
    <<125, 125>>

\* make_json(t, s, m) in build_notification_json; ts is int(time.time()) and
\* date is datetime.now().strftime("%Y%m%dT%H%M%S"), both read from the clock
make_json(t, s, m, app_id, display_name, ts, date) ==
    json_open \o decimal(10000 + (ts % 10000))
    \o json_action \o json_string(app_id)
    \o json_title \o json_string(t)
    \o json_subtitle \o json_string(s)
    \o json_message \o json_string(m)
    \o json_time \o decimal(ts)
    \o json_date \o json_string(date)
    \o json_display \o json_string(display_name)
    \o json_close

current_fields_keeps_message(title, subtitle, message, available) ==
    IF Len(title) + Len(subtitle) > available
    THEN IF Len(title) + 3 > available
         THEN <<truncate_field(title, available), <<>>, <<>>>>
         ELSE <<title, truncate_field(subtitle, available - Len(title)), truncate_field(message, 3)>>
    ELSE <<title, subtitle,
           truncate_field(message, Max2(0, available - Len(title) - Len(subtitle)))>>

\* <<current_title, current_subtitle, current_message>> when
\* build_notification_json reaches its last return
current_fields(title, subtitle, message, available) ==
    IF Len(title) + Len(subtitle) > available
    THEN IF Len(title) + 3 > available
         THEN <<truncate_field(title, available), <<>>, <<>>>>
         ELSE <<title, truncate_field(subtitle, available - Len(title)), <<>>>>
    ELSE <<title, subtitle,
           truncate_field(message, Max2(0, available - Len(title) - Len(subtitle)))>>

\* returns <<json_bytes, was_truncated>>
build_notification_json(title, subtitle, message, app_id, display_name, max_size, ts, date) ==
    LET json_bytes == make_json(title, subtitle, message, app_id, display_name, ts, date)
        overhead == Len(make_json(<<>>, <<>>, <<>>, app_id, display_name, ts, date))
        available == max_size - overhead
        fields == current_fields(title, subtitle, message, available)
    IN  IF Len(json_bytes) <= max_size THEN <<json_bytes, FALSE>>
        ELSE <<make_json(fields[1], fields[2], fields[3], app_id, display_name, ts, date), TRUE>>

---------------------------------------------------------------------------
(* SpecJson: build_notification_json applied to inputs from bounded sets *)

LongLen == 300

\* "com.google.android.gm", "Gmail": the default app_id and display_name
DefaultAppId ==
    <<99, 111, 109, 46, 103, 111, 111, 103, 108, 101, 46, 97, 110, 100, 114, 111,
      105, 100, 46, 103, 109>>

DefaultDisplayName == <<71, 109, 97, 105, 108>>

\* a reading of the wall clock: "20261028T234604"
ClockDate == <<50, 48, 50, 54, 49, 48, 50, 56, 84, 50, 51, 52, 54, 48, 52>>

ClockTime == 1793231164

\* the letter a, the double quote (escaped to 2 bytes), e-acute (escaped to 6)
TitleChars == {97, 34, 233}

Titles == {Repeat(c, n) : c \in TitleChars, n \in {0, 1, 5, 31, 32, 33, 35, 36, 40, LongLen}}

Subtitles == {Repeat(c, n) : c \in {98, 233}, n \in {0, 3, 4, 40}}

Messages == {Repeat(c, n) : c \in {99, 92}, n \in {0, 20, 1000}}

JsonArgs ==
    [title : Titles, subtitle : Subtitles, message : Messages,
     app_id : {DefaultAppId, Repeat(120, 60)},
     display_name : {DefaultDisplayName},
     max_size : {MAX_JSON_SIZE, 260},
     ts : {ClockTime}, date : {ClockDate}]

InitJson ==
    /\ flow = "json"
    /\ pc = "start"
    /\ args \in JsonArgs
    /\ ret = NoRet
    /\ writes = <<>>
    /\ seq = 0
    /\ magic = 0
    /\ exc = "none"
    /\ loc = <<>>

CallBuildNotificationJson ==
    /\ flow = "json" /\ pc = "start"
    /\ pc' = "build_notification_json"
    /\ ret' = Ok(build_notification_json(args.title, args.subtitle, args.message,
                                         args.app_id, args.display_name, args.max_size,
                                         args.ts, args.date))
    /\ UNCHANGED <<flow, args, writes, seq, magic, exc, loc>>

NextJson == CallBuildNotificationJson

SpecJson == InitJson /\ [][NextJson]_vars

\* C10: for every title, subtitle, message, app_id and display_name the byte
\* string returned by build_notification_json is at most max_size bytes long.
C10_JsonFits ==
    (flow = "json" /\ pc = "build_notification_json") =>
        Len(ret.val[1]) <= args.max_size


---------------------------------------------------------------------------
(* The programs.  Each run is one execution of a program's main(): the     *)
(* command line, the scan result, the clock and the other answers of the   *)
(* environment are fixed in args when the run starts, and every GATT write *)
(* is one step.  A write appends [ep, ch, data, op, sleep] to writes: the  *)
(* eye written to, the characteristic, the bytes, the statement of the     *)
(* source that issued it, and the milliseconds of asyncio.sleep the run    *)
(* awaits after it, up to its next write or its end.  An exception raised  *)
(* while a frame is built ends the run before the write happens.           *)

\* await client.write_gatt_char(ch, built, ...) followed by the statements
\* up to the next write: built is the [exc, val] result of the encoder call
\* in the argument list, next the position reached when it returns, sleep_ms
\* the asyncio.sleep calls among those statements
WriteGatt(ep, ch, op, built, next, sleep_ms) ==
    IF built.exc = "none"
    THEN /\ writes' = Append(writes, [ep |-> ep, ch |-> ch, data |-> built.val, op |-> op,
                                      sleep |-> sleep_ms])
         /\ pc' = next
         /\ exc' = exc
    ELSE /\ writes' = writes
         /\ pc' = "done"
         /\ exc' = built.exc

---------------------------------------------------------------------------
(* notification_trunc.py: main, authenticate, send_notification *)

\* title, subtitle, message from sys.argv[1:]
notif_fields(argv) ==
    IF Len(argv) = 0
    THEN << <<80, 121, 116, 104, 111, 110>>,
            <<84, 101, 115, 116, 32, 78, 111, 116, 105, 102, 105, 99, 97, 116, 105, 111, 110>>,
            <<72, 101, 108, 108, 111, 32, 102, 114, 111, 109, 32, 80, 121, 116, 104, 111, 110, 33>> >>
    ELSE IF Len(argv) = 1 THEN << <<77, 101, 115, 115, 97, 103, 101>>, argv[1], <<>> >>
    ELSE IF Len(argv) = 2 THEN << argv[1], argv[2], <<>> >>
    ELSE << argv[1], argv[2], argv[3] >>

\* b"user/notify_whitelist.json"
notify_filename ==
    <<117, 115, 101, 114, 47, 110, 111, 116, 105, 102, 121, 95, 119, 104, 105, 116,
      101, 108, 105, 115, 116, 46, 106, 115, 111, 110>>

\* bytes.fromhex("aa210e0601018020080e106b6a00e174")
heartbeat_frame == <<170, 33, 14, 6, 1, 1, 128, 32, 8, 14, 16, 107, 106, 0, 225, 116>>

\* a command line with a title of 40 e-acute, one with four arguments
NotifArgvs ==
    { <<>>,
      << <<72, 105>> >>,
      << <<84>>, <<83>> >>,
      << <<84>>, <<83>>, <<77, 92, 34>> >>,
      << Repeat(233, 40), <<115>>, <<109>> >>,
      << <<97>>, <<98>>, <<99>>, <<100>> >> }

\* time.time() is read three times: by authenticate(left), by
\* authenticate(right) 0.3 s of sleeps later (clock + tick) and by
\* build_notification_json 0.8 s of sleeps after that (clock + tick +
\* tick_json); 1.1 s lie between the first and the third reading, so the
\* second of the clock changes at least once between them
InitNotif ==
    /\ flow = "notif"
    /\ pc = "start"
    /\ args \in {a \in [argv : NotifArgvs, left_found : BOOLEAN, right_found : BOOLEAN,
                        clock : {ClockTime}, tick : {0, 1}, tick_json : {0, 1},
                        date : {ClockDate}] : a.tick + a.tick_json >= 1}
    /\ ret = NoRet
    /\ writes = <<>>
    /\ seq = 0
    /\ magic = 0
    /\ exc = "none"
    /\ loc = <<>>

\* main up to the first write: the scan, then authenticate(left) builds its list
NotifMain ==
    /\ flow = "notif" /\ pc = "start"
    /\ IF ~args.left_found \/ ~args.right_found
       THEN pc' = "done" /\ loc' = loc
       ELSE /\ pc' = "auth_left"
            /\ loc' = [title |-> notif_fields(args.argv)[1],
                       subtitle |-> notif_fields(args.argv)[2],
                       message |-> notif_fields(args.argv)[3],
                       auth_pkts |-> auth_pkts(args.clock), k |-> 1,
                       json_bytes |-> <<>>]
    /\ UNCHANGED <<flow, args, ret, writes, seq, magic, exc>>

AuthenticateLeft_only ==
    /\ flow = "notif" /\ pc = "auth_left"
    /\ writes' = Append(writes, [ep |-> "left", ch |-> "CHAR_WRITE",
                                 data |-> loc.auth_pkts[loc.k], op |-> "auth",
                                 sleep |-> IF loc.k < Len(loc.auth_pkts) THEN 100 ELSE 600])
    /\ IF loc.k < Len(loc.auth_pkts)
       THEN pc' = pc /\ loc' = [loc EXCEPT !.k = loc.k + 1]
       ELSE pc' = "file_check" /\ loc' = loc
    /\ UNCHANGED <<flow, args, ret, seq, magic, exc>>

\* one pass of `for p in auth_pkts` in authenticate(left, "LEFT"); after the
\* last one authenticate(right, "RIGHT") reads the clock and builds its list
AuthenticateLeft ==
    /\ flow = "notif" /\ pc = "auth_left"
    /\ writes' = Append(writes, [ep |-> "left", ch |-> "CHAR_WRITE",
                                 data |-> loc.auth_pkts[loc.k], op |-> "auth", sleep |-> 100])
    /\ IF loc.k < Len(loc.auth_pkts)
       THEN pc' = pc /\ loc' = [loc EXCEPT !.k = loc.k + 1]
       ELSE /\ pc' = "auth_right"
            /\ loc' = [loc EXCEPT !.auth_pkts = auth_pkts(args.clock + args.tick), !.k = 1]
    /\ UNCHANGED <<flow, args, ret, seq, magic, exc>>

\* one pass of the loop in authenticate(right, "RIGHT")
AuthenticateRight ==
    /\ flow = "notif" /\ pc = "auth_right"
    /\ writes' = Append(writes, [ep |-> "right", ch |-> "CHAR_WRITE",
                                 data |-> loc.auth_pkts[loc.k], op |-> "auth",
                                 sleep |-> IF loc.k < Len(loc.auth_pkts) THEN 100 ELSE 600])
    /\ IF loc.k < Len(loc.auth_pkts)
       THEN pc' = pc /\ loc' = [loc EXCEPT !.k = loc.k + 1]
       ELSE pc' = "file_check" /\ loc' = loc
    /\ UNCHANGED <<flow, args, ret, seq, magic, exc>>

\* fc_payload of send_notification for the bytes json_bytes
fc_payload(json_bytes) ==
    LET fields == calc_file_check_fields(json_bytes)
        extra == bytes_(<<fields.extra>>)
    IN  pack_u32_le(256)
        \o pack_u32_le(fields.size)
        \o pack_bytes_le(fields.checksum)
        \o extra.val
        \o notify_filename \o Repeat(0, 80 - Len(notify_filename))

\* SendFileCheck with the fields computed before the JSON is truncated
SendFileCheck_before_truncation ==
    /\ flow = "notif" /\ pc = "file_check"
    /\ LET built == build_notification_json(loc.title, loc.subtitle, loc.message,
                                            DefaultAppId, DefaultDisplayName, MAX_JSON_SIZE,
                                            args.clock + args.tick + args.tick_json, args.date)
           full == make_json(loc.title, loc.subtitle, loc.message, DefaultAppId,
                             DefaultDisplayName, args.clock + args.tick + args.tick_json, args.date)
       IN  /\ WriteGatt("right", "CHAR_NOTIF_WRITE", "FILE_CHECK",
                        build_packet(16, 196, 0, fc_payload(full), 1, 1), "start_pkt", 300)
           /\ loc' = [loc EXCEPT !.json_bytes = built[1]]
    /\ UNCHANGED <<flow, args, ret, seq, magic>>

\* send_notification up to and including the FILE_CHECK write
SendFileCheck ==
    /\ flow = "notif" /\ pc = "file_check"
    /\ LET built == build_notification_json(loc.title, loc.subtitle, loc.message,
                                            DefaultAppId, DefaultDisplayName, MAX_JSON_SIZE,
                                            args.clock + args.tick + args.tick_json, args.date)
           json_bytes == built[1]
       IN  /\ WriteGatt("right", "CHAR_NOTIF_WRITE", "FILE_CHECK",
                        build_packet(16, 196, 0, fc_payload(json_bytes), 1, 1), "start_pkt", 300)
           /\ loc' = [loc EXCEPT !.json_bytes = json_bytes]
    /\ UNCHANGED <<flow, args, ret, seq, magic>>

SendStart ==
    /\ flow = "notif" /\ pc = "start_pkt"
    /\ WriteGatt("right", "CHAR_NOTIF_WRITE", "START",
                 build_packet(73, 196, 0, <<1>>, 1, 1), "data_pkt", 100)
    /\ UNCHANGED <<flow, args, ret, seq, magic, loc>>

SendData ==
    /\ flow = "notif" /\ pc = "data_pkt"
    /\ WriteGatt("right", "CHAR_NOTIF_WRITE", "DATA",
                 build_packet(73, 197, 0, loc.json_bytes, 1, 1), "end_pkt", 300)
    /\ UNCHANGED <<flow, args, ret, seq, magic, loc>>

SendEnd ==
    /\ flow = "notif" /\ pc = "end_pkt"
    /\ WriteGatt("right", "CHAR_NOTIF_WRITE", "END",
                 build_packet(218, 196, 0, <<2>>, 1, 1), "heartbeat", 200)
    /\ UNCHANGED <<flow, args, ret, seq, magic, loc>>

SendHeartbeat ==
    /\ flow = "notif" /\ pc = "heartbeat"
    /\ WriteGatt("left", "CHAR_WRITE", "HEARTBEAT", Ok(heartbeat_frame), "done", 3000)
    /\ UNCHANGED <<flow, args, ret, seq, magic, loc>>

---------------------------------------------------------------------------
(* even_ai.py: main, display_qa *)

\* `a or b` on strings: a unless it is None or empty (<<>> stands for both)
StrOr(a, b) == IF a # <<>> THEN a ELSE b

\* "What is 2 + 2?"
DefaultQuestion == <<87, 104, 97, 116, 32, 105, 115, 32, 50, 32, 43, 32, 50, 63>>

\* "The answer is 4!"
DefaultAnswer == <<84, 104, 101, 32, 97, 110, 115, 119, 101, 114, 32, 105, 115, 32, 52, 33>>

\* the eye whose name holds the pattern "_L_" if args.left else "_R_"
EyeOf(left) == IF left THEN "left" ELSE "right"

MaxTextLen == 240

\* questions and answers: absent, short, two-byte characters, and texts
\* whose frame needs a length byte past 255
AiTexts == { <<>>, <<72, 105>>, <<233, 8364>>, Repeat(120, MaxTextLen) }

AiArgs ==
    [question : AiTexts, answer : {<<>>, <<79, 75>>}, q : {<<>>, <<81>>}, a : {<<>>},
     left : {FALSE}, devices : {{"left", "right"}}, clock : {ClockTime}]
    \cup
    [question : {<<>>}, answer : {<<>>, Repeat(121, MaxTextLen)}, q : {<<>>}, a : {<<>>, <<65>>},
     left : BOOLEAN, devices : {{"left"}, {"right"}}, clock : {ClockTime}]

InitAi ==
    /\ flow = "ai"
    /\ pc = "start"
    /\ args \in AiArgs
    /\ ret = NoRet
    /\ writes = <<>>
    /\ seq = 0
    /\ magic = 0
    /\ exc = "none"
    /\ loc = <<>>

\* main up to the first write: the arguments, the scan, build_auth_packets()
AiMain ==
    /\ flow = "ai" /\ pc = "start"
    /\ IF EyeOf(args.left) \notin args.devices
       THEN pc' = "done" /\ loc' = loc
       ELSE /\ pc' = "auth"
            /\ loc' = [question |-> StrOr(args.question, StrOr(args.q, DefaultQuestion)),
                       answer |-> StrOr(args.answer, StrOr(args.a, DefaultAnswer)),
                       ep |-> EyeOf(args.left),
                       auth_pkts |-> build_auth_packets(args.clock), k |-> 1]
    /\ UNCHANGED <<flow, args, ret, writes, seq, magic, exc>>

\* one pass of `for pkt in build_auth_packets()`; after the last one
\* display_qa starts with seq = 0x08, magic = 100
AiAuthWrite ==
    /\ flow = "ai" /\ pc = "auth"
    /\ writes' = Append(writes, [ep |-> loc.ep, ch |-> "CHAR_WRITE",
                                 data |-> loc.auth_pkts[loc.k], op |-> "auth",
                                 sleep |-> IF loc.k < Len(loc.auth_pkts) THEN 100 ELSE 600])
    /\ IF loc.k < Len(loc.auth_pkts)
       THEN pc' = pc /\ loc' = [loc EXCEPT !.k = loc.k + 1] /\ UNCHANGED <<seq, magic>>
       ELSE pc' = "enter" /\ loc' = loc /\ seq' = 8 /\ magic' = 100
    /\ UNCHANGED <<flow, args, ret, exc>>

Advance_seq_only(built) ==
    IF built.exc = "none"
    THEN seq' = seq + 1 /\ magic' = magic
    ELSE UNCHANGED <<seq, magic>>

\* seq += 1; magic += 1 (or msg_id += 1) after the write of built, which is
\* not reached when building raised
Advance(built) ==
    IF built.exc = "none"
    THEN seq' = seq + 1 /\ magic' = magic + 1
    ELSE UNCHANGED <<seq, magic>>

\* the ENTER write followed by the settle delay of an ordinary packet
DisplayEnter_short_settle ==
    /\ flow = "ai" /\ pc = "enter"
    /\ LET built == build_ctrl_enter(seq, magic)
       IN  WriteGatt(loc.ep, "CHAR_WRITE", "ENTER", built, "ask", 100) /\ Advance(built)
    /\ UNCHANGED <<flow, args, ret, loc>>

DisplayEnter ==
    /\ flow = "ai" /\ pc = "enter"
    /\ LET built == build_ctrl_enter(seq, magic)
       IN  WriteGatt(loc.ep, "CHAR_WRITE", "ENTER", built, "ask", 300) /\ Advance(built)
    /\ UNCHANGED <<flow, args, ret, loc>>

DisplayAsk ==
    /\ flow = "ai" /\ pc = "ask"
    /\ LET built == build_ask(seq, magic, loc.question)
       IN  WriteGatt(loc.ep, "CHAR_WRITE", "ASK", built, "reply", 1000) /\ Advance(built)
    /\ UNCHANGED <<flow, args, ret, loc>>

\* the last write of display_qa: the counters are not advanced after it
DisplayReply ==
    /\ flow = "ai" /\ pc = "reply"
    /\ WriteGatt(loc.ep, "CHAR_WRITE", "REPLY", build_reply(seq, magic, loc.answer), "done",
                 5000)
    /\ UNCHANGED <<flow, args, ret, seq, magic, loc>>

---------------------------------------------------------------------------
(* llm_teleprompter.py: main, query_and_display *)

\* str.lower() on ASCII text (the lines read here are ASCII)
lower(s) == [i \in 1..Len(s) |-> IF s[i] \in 65..90 THEN s[i] + 32 ELSE s[i]]

\* ('quit', 'exit', 'q')
QuitWords == { <<113, 117, 105, 116>>, <<101, 120, 105, 116>>, <<113>> }

\* "Error: "
ErrorPrefix == <<69, 114, 114, 111, 114, 58, 32>>

\* the text REPLY shows: the truncated answer of provider.query, or, when
\* the provider raised e, f"Error: {str(e)[:50]}"
display_answer(provider) ==
    IF provider.raises THEN Ok(ErrorPrefix \o py_prefix(provider.text, 50))
    ELSE truncate_for_display(provider.text, 200)

MaxQuestions == 53

\* the lines typed at the prompt, end of input after the last: sessions of
\* up to MaxQuestions questions, blank lines, and the words that quit
StdinScripts ==
    { Repeat(<<104, 105>>, n) : n \in {0, 1, 2} }
    \cup { << <<32, 104, 105, 32>>, <<>>, <<32, 32>>, <<119, 104, 121, 63>>, <<32, 81, 117, 105, 84, 32>>,
              <<104, 105>> >>,
           << <<69, 88, 73, 84>>, <<104, 105>> >>,
           << <<113>> >>,
           << <<113, 113>>, Repeat(233, 100) >> }

\* what provider.query does in this run: return text, or raise with str(e) = text
Providers ==
    { [raises |-> FALSE, text |-> <<52>>],
      [raises |-> FALSE, text |-> Repeat(8364, 80)],
      [raises |-> TRUE, text |-> Repeat(233, 60)],
      [raises |-> TRUE, text |-> Repeat(128512, 50)] }

LlmArgs ==
    [provider_ok : {TRUE}, provider : Providers, interactive : {TRUE}, question : {<<>>},
     stdin : StdinScripts, left : {FALSE}, devices : {{"left", "right"}}, clock : {ClockTime}]
    \cup
    [provider_ok : {TRUE}, provider : {[raises |-> FALSE, text |-> <<52>>]}, interactive : {TRUE},
     question : {<<>>}, stdin : {Repeat(<<104, 105>>, MaxQuestions)}, left : {FALSE},
     devices : {{"left", "right"}}, clock : {ClockTime}]
    \cup
    [provider_ok : BOOLEAN, provider : Providers, interactive : {FALSE},
     question : {<<>>, <<72, 105>>, Repeat(8364, 60)},
     stdin : {<<>>}, left : BOOLEAN, devices : {{"left"}, {"left", "right"}}, clock : {ClockTime}]

InitLlm ==
    /\ flow = "llm"
    /\ pc = "start"
    /\ args \in LlmArgs
    /\ ret = NoRet
    /\ writes = <<>>
    /\ seq = 0
    /\ magic = 0
    /\ exc = "none"
    /\ loc = <<>>

\* main up to the first write: get_provider, the scan, build_auth_packets()
LlmMain ==
    /\ flow = "llm" /\ pc = "start"
    /\ IF ~args.provider_ok \/ EyeOf(args.left) \notin args.devices
       THEN pc' = "done" /\ loc' = loc
       ELSE /\ pc' = "auth"
            /\ loc' = [ep |-> EyeOf(args.left),
                       auth_pkts |-> build_auth_packets_llm(args.clock), k |-> 1,
                       line |-> 1, question |-> <<>>]
    /\ UNCHANGED <<flow, args, ret, writes, seq, magic, exc>>

\* one pass of `for pkt in build_auth_packets()`; after the last one
\* seq = 0x08, magic = 100 and the mode is chosen
LlmAuthWrite ==
    /\ flow = "llm" /\ pc = "auth"
    /\ writes' = Append(writes, [ep |-> loc.ep, ch |-> "CHAR_WRITE",
                                 data |-> loc.auth_pkts[loc.k], op |-> "auth",
                                 sleep |-> IF loc.k < Len(loc.auth_pkts) THEN 100 ELSE 600])
    /\ IF loc.k < Len(loc.auth_pkts)
       THEN pc' = pc /\ loc' = [loc EXCEPT !.k = loc.k + 1] /\ UNCHANGED <<seq, magic>>
       ELSE /\ seq' = 8 /\ magic' = 100
            /\ IF args.interactive
               THEN pc' = "input" /\ loc' = loc
               ELSE /\ pc' = "enter"
                    /\ loc' = [loc EXCEPT !.question = StrOr(args.question, DefaultQuestion)]
    /\ UNCHANGED <<flow, args, ret, exc>>

\* one pass of `while True` up to the call of query_and_display
LlmInput ==
    /\ flow = "llm" /\ pc = "input"
    /\ IF loc.line > Len(args.stdin)
       THEN pc' = "done" /\ loc' = loc
       ELSE LET question == strip(args.stdin[loc.line])
            IN  IF lower(question) \in QuitWords
                THEN pc' = "done" /\ loc' = loc
                ELSE IF question = <<>>
                THEN pc' = pc /\ loc' = [loc EXCEPT !.line = loc.line + 1]
                ELSE pc' = "enter" /\ loc' = [loc EXCEPT !.line = loc.line + 1,
                                                         !.question = question]
    /\ UNCHANGED <<flow, args, ret, writes, seq, magic, exc>>

QueryEnter ==
    /\ flow = "llm" /\ pc = "enter"
    /\ LET built == build_ctrl_enter_llm(seq, magic)
       IN  WriteGatt(loc.ep, "CHAR_WRITE", "ENTER", built, "ask", 300) /\ Advance(built)
    /\ UNCHANGED <<flow, args, ret, loc>>

QueryAsk ==
    /\ flow = "llm" /\ pc = "ask"
    /\ LET display_q == truncate_for_display(loc.question, 150)
           built == IF display_q.exc # "none" THEN display_q
                    ELSE build_ask_llm(seq, magic, display_q.val)
       IN  WriteGatt(loc.ep, "CHAR_WRITE", "ASK", built, "reply", 500) /\ Advance(built)
    /\ UNCHANGED <<flow, args, ret, loc>>

\* provider.query, the REPLY write, and the return of seq, magic to main
QueryReply ==
    /\ flow = "llm" /\ pc = "reply"
    /\ LET display_a == display_answer(args.provider)
           built == IF display_a.exc # "none" THEN display_a
                    ELSE build_reply_llm(seq, magic, display_a.val)
       IN  /\ WriteGatt(loc.ep, "CHAR_WRITE", "REPLY", built,
                        IF args.interactive THEN "input" ELSE "done",
                        IF args.interactive THEN 3000 ELSE 5000)
           /\ Advance(built)
    /\ UNCHANGED <<flow, args, ret, loc>>

---------------------------------------------------------------------------
(* teleprompter.py: main, send_text *)

\* "Hello from Python!\nThis is a test."
DefaultText ==
    <<72, 101, 108, 108, 111, 32, 102, 114, 111, 109, 32, 80, 121, 116, 104, 111, 110,
      33, 10, 84, 104, 105, 115, 32, 105, 115, 32, 97, 32, 116, 101, 115, 116, 46>>

\* "--right"
RightFlag == <<45, 45, 114, 105, 103, 104, 116>>

MaxLines == 2439

\* sys.argv[1:]: no text, a text with an escaped newline and the flag, the
\* flag alone (it is then the text too), 142 empty lines (15 pages),
\* MaxLines + 1 empty lines (244 pages, the last packet has sequence 255)
\* and ten lines more than that, ten words of 30 letters (a page past the
\* length byte)
TpArgvs ==
    { <<>>,
      << <<72, 105, 92, 110, 233, 8364, 32, 111, 107>>, RightFlag >>,
      << RightFlag >>,
      << Repeat(10, 141) >>,
      << Repeat(10, MaxLines) >>,
      << Repeat(10, MaxLines + 10) >>,
      << [i \in 1..309 |-> IF i % 31 = 0 THEN 32 ELSE 119] >> }

\* the G2 devices of the scan, in the order found
TpScans == { <<>>, <<"left">>, <<"right">>, <<"left", "right">>, <<"right", "left">> }

InitTp ==
    /\ flow = "tp"
    /\ pc = "start"
    /\ args \in ([argv : TpArgvs, devices : {<<"left", "right">>}, connected : {TRUE},
                  clock : {ClockTime}]
                 \cup [argv : {<<>>, <<RightFlag>>}, devices : TpScans, connected : BOOLEAN,
                       clock : {ClockTime}])
    /\ ret = NoRet
    /\ writes = <<>>
    /\ seq = 0
    /\ magic = 0
    /\ exc = "none"
    /\ loc = <<>>

\* "--right" in sys.argv
use_right(argv) == \E i \in 1..Len(argv) : argv[i] = RightFlag

\* next((d for d in g2_devices if pattern in d.name), g2_devices[0])
select_device(g2_devices, pattern) ==
    IF \E i \in 1..Len(g2_devices) : g2_devices[i] = pattern THEN pattern ELSE g2_devices[1]

\* main and send_text up to the first write
TpMain ==
    /\ flow = "tp" /\ pc = "start"
    /\ IF args.devices = <<>> \/ ~args.connected
       THEN pc' = "done" /\ loc' = loc
       ELSE /\ pc' = "auth"
            /\ loc' = [text |-> IF Len(args.argv) > 0 THEN args.argv[1] ELSE DefaultText,
                       ep |-> select_device(args.devices,
                                            IF use_right(args.argv) THEN "right" ELSE "left"),
                       auth_pkts |-> build_auth_packets_tp(args.clock), k |-> 1,
                       pages |-> <<>>, total_lines |-> 0, i |-> 0]
    /\ UNCHANGED <<flow, args, ret, writes, seq, magic, exc>>

\* one pass of `for pkt in build_auth_packets()`; after the last one the
\* text is formatted and seq, msg_id = 0x08, 0x14
TpAuthWrite ==
    /\ flow = "tp" /\ pc = "auth"
    /\ writes' = Append(writes, [ep |-> loc.ep, ch |-> "CHAR_WRITE",
                                 data |-> loc.auth_pkts[loc.k], op |-> "auth",
                                 sleep |-> IF loc.k < Len(loc.auth_pkts) THEN 100 ELSE 600])
    /\ IF loc.k < Len(loc.auth_pkts)
       THEN pc' = pc /\ loc' = [loc EXCEPT !.k = loc.k + 1] /\ UNCHANGED <<seq, magic, exc>>
       ELSE LET pages == format_text(loc.text, 25, 10, 0)
            IN  IF pages.exc # "none"
                THEN pc' = "done" /\ exc' = pages.exc /\ loc' = loc /\ UNCHANGED <<seq, magic>>
                ELSE /\ pc' = "config" /\ exc' = exc
                     /\ seq' = 8 /\ magic' = 20
                     /\ loc' = [loc EXCEPT
                                  !.pages = pages.val,
                                  !.total_lines =
                                      Len(split_newline(replace_escaped_newlines(loc.text)))]
    /\ UNCHANGED <<flow, args, ret>>

Min2(a, b) == IF a <= b THEN a ELSE b

\* the position after the loop `for i in range(lo, hi)` has been left, or
\* inside it when it has a pass to make
AfterLoop(inside, after, lo, hi) == IF lo < hi THEN inside ELSE after

SendDisplayConfig ==
    /\ flow = "tp" /\ pc = "config"
    /\ LET built == build_display_config(seq, magic)
       IN  WriteGatt(loc.ep, "CHAR_WRITE", "CONFIG", built, "init", 300) /\ Advance(built)
    /\ UNCHANGED <<flow, args, ret, loc>>

SendInit ==
    /\ flow = "tp" /\ pc = "init"
    /\ LET built == build_teleprompter_init(seq, magic, loc.total_lines, TRUE)
       IN  /\ WriteGatt(loc.ep, "CHAR_WRITE", "INIT", built,
                        AfterLoop("pages_0_9", "marker", 0, Min2(10, Len(loc.pages))), 500)
           /\ Advance(built)
    /\ loc' = [loc EXCEPT !.i = 0]
    /\ UNCHANGED <<flow, args, ret>>

\* one pass of `for i in range(min(10, len(pages)))`
SendPagesFirst ==
    /\ flow = "tp" /\ pc = "pages_0_9"
    /\ LET built == build_content_page(seq, magic, loc.i, loc.pages[loc.i + 1])
       IN  /\ WriteGatt(loc.ep, "CHAR_WRITE", "PAGE", built,
                        AfterLoop("pages_0_9", "marker", loc.i + 1, Min2(10, Len(loc.pages))),
                        100)
           /\ Advance(built)
    /\ loc' = [loc EXCEPT !.i = loc.i + 1]
    /\ UNCHANGED <<flow, args, ret>>

SendMarker_keeps_counters ==
    /\ flow = "tp" /\ pc = "marker"
    /\ LET built == build_marker(seq, magic)
       IN  WriteGatt(loc.ep, "CHAR_WRITE", "MARKER", built,
                     AfterLoop("pages_10_11", "sync", 10, Min2(12, Len(loc.pages))), 100)
    /\ loc' = [loc EXCEPT !.i = 10]
    /\ UNCHANGED <<flow, args, ret, seq, magic>>

SendMarker ==
    /\ flow = "tp" /\ pc = "marker"
    /\ LET built == build_marker(seq, magic)
       IN  /\ WriteGatt(loc.ep, "CHAR_WRITE", "MARKER", built,
                        AfterLoop("pages_10_11", "sync", 10, Min2(12, Len(loc.pages))), 100)
           /\ Advance(built)
    /\ loc' = [loc EXCEPT !.i = 10]
    /\ UNCHANGED <<flow, args, ret>>

\* one pass of `for i in range(10, min(12, len(pages)))`
SendPagesMid ==
    /\ flow = "tp" /\ pc = "pages_10_11"
    /\ LET built == build_content_page(seq, magic, loc.i, loc.pages[loc.i + 1])
       IN  /\ WriteGatt(loc.ep, "CHAR_WRITE", "PAGE", built,
                        AfterLoop("pages_10_11", "sync", loc.i + 1, Min2(12, Len(loc.pages))),
                        100)
           /\ Advance(built)
    /\ loc' = [loc EXCEPT !.i = loc.i + 1]
    /\ UNCHANGED <<flow, args, ret>>

SendSync ==
    /\ flow = "tp" /\ pc = "sync"
    /\ LET built == build_sync(seq, magic)
       IN  /\ WriteGatt(loc.ep, "CHAR_WRITE", "SYNC", built,
                        AfterLoop("pages_rest", "done", 12, Len(loc.pages)),
                        IF 12 < Len(loc.pages) THEN 100 ELSE 5100)
           /\ Advance(built)
    /\ loc' = [loc EXCEPT !.i = 12]
    /\ UNCHANGED <<flow, args, ret>>

\* one pass of `for i in range(12, len(pages))`
SendPagesRest ==
    /\ flow = "tp" /\ pc = "pages_rest"
    /\ LET built == build_content_page(seq, magic, loc.i, loc.pages[loc.i + 1])
       IN  /\ WriteGatt(loc.ep, "CHAR_WRITE", "PAGE", built,
                        AfterLoop("pages_rest", "done", loc.i + 1, Len(loc.pages)),
                        IF loc.i + 1 < Len(loc.pages) THEN 100 ELSE 5100)
           /\ Advance(built)
    /\ loc' = [loc EXCEPT !.i = loc.i + 1]
    /\ UNCHANGED <<flow, args, ret>>

---------------------------------------------------------------------------
(* The specification of the programs *)

Init == InitNotif \/ InitAi \/ InitLlm \/ InitTp

Next ==
    \/ NotifMain
    \/ AuthenticateLeft
    \/ AuthenticateRight
    \/ SendFileCheck
    \/ SendStart
    \/ SendData
    \/ SendEnd
    \/ SendHeartbeat
    \/ AiMain
    \/ AiAuthWrite
    \/ DisplayEnter
    \/ DisplayAsk
    \/ DisplayReply
    \/ LlmMain
    \/ LlmAuthWrite
    \/ LlmInput
    \/ QueryEnter
    \/ QueryAsk
    \/ QueryReply
    \/ TpMain
    \/ TpAuthWrite
    \/ SendDisplayConfig
    \/ SendInit
    \/ SendPagesFirst
    \/ SendMarker
    \/ SendPagesMid
    \/ SendSync
    \/ SendPagesRest

Spec == Init /\ [][Next]_vars

---------------------------------------------------------------------------
(* Properties of the programs *)

LastWrite == writes[Len(writes)]

\* the writes made to one eye, oldest first
OnEp(e) == SelectSeq(writes, LAMBDA w : w.ep = e)

\* C2: every frame written to a device in any flow, the handshake frames and
\* the heartbeat frame included, satisfies the wire format: it starts with
\* AA 21, its 4th byte is the frame length - 8, and its last two bytes are
\* the little-endian CRC-16/CCITT of the bytes between header and trailer.
\* (writes only grows, so it is enough that each frame is right when written.)
C2_WireFormat ==
    writes # <<>> => WireFormatOK(LastWrite.data)

\* C4: over a session of any length the sequence byte and the AI magic id
\* wrap within one byte, so no run of the interactive AI loop or of the
\* teleprompter ends with an encoder failing on a counter past 255.
C4_CountersWrap ==
    (flow \in {"llm", "tp"} /\ exc = "ValueError") =>
        (seq <= 255 /\ (flow = "llm" => magic <= 255))

\* C5: on each connection every packet written carries a sequence number
\* greater than that of every packet written before it on that connection
\* (so FILE_CHECK, START, DATA and END carry four distinct increasing
\* numbers, all past the handshake's, and no two packets share one).
C5_FreshSequence ==
    writes # <<>> =>
        \A i \in 1..(Len(writes) - 1) :
            writes[i].ep = LastWrite.ep => writes[i].data[3] < LastWrite.data[3]

\* the commandId and the magic id of an AI frame: payload 08 <cmd> 10 <magic> ...
CommandOf(frame) == PayloadOf(frame)[2]

MagicOf(frame) == PayloadOf(frame)[4]

IsEnter(frame) ==
    /\ Len(PayloadOf(frame)) = 8
    /\ CommandOf(frame) = 1
    /\ SubSeq(PayloadOf(frame), 5, 8) = <<26, 2, 8, 2>>

\* C6: in every AI exchange the packets are written in the order ENTER, ASK,
\* REPLY: an ASK directly follows an ENTER and a REPLY directly follows an
\* ASK, each with the sequence number and the magic id of the packet before
\* it plus one; an ENTER is the first packet after the handshake or follows
\* the previous exchange's REPLY, again with both values plus one.
C6_ExchangeOrder ==
    (flow \in {"ai", "llm"} /\ Len(writes) > 7) =>
        LET n == Len(writes)
            frame == LastWrite.data
            prev == writes[n - 1].data
            follows == /\ frame[3] = prev[3] + 1
                       /\ MagicOf(frame) = MagicOf(prev) + 1
        IN  /\ frame[7] = 7 /\ frame[8] = 32
            /\ \/ /\ IsEnter(frame)
                  /\ \/ n = 8 /\ writes[n - 1].op = "auth" /\ frame[3] = prev[3] + 1
                     \/ n > 8 /\ CommandOf(prev) = 5 /\ follows
               \/ /\ CommandOf(frame) = 3
                  /\ n > 8 /\ IsEnter(prev) /\ follows
               \/ /\ CommandOf(frame) = 5
                  /\ n > 9 /\ CommandOf(prev) = 3 /\ follows

\* the ENTER of a third exchange has been written after two full exchanges
C6_Witness ==
    /\ flow = "llm" /\ Len(writes) = 14
    /\ IsEnter(LastWrite.data)
    /\ CommandOf(writes[13].data) = 5 /\ CommandOf(writes[10].data) = 5

\* index of the last byte of the varint that starts at bs[i]
VarintEnd(bs, i) ==
    CHOOSE k \in i..Len(bs) : bs[k] < 128 /\ \A m \in i..(k - 1) : bs[m] >= 128

\* the message id of a teleprompter payload: 08 <type varint> 10 <msg_id varint> ...
MsgIdOf(payload) ==
    LET t == VarintEnd(payload, 2)
    IN  IF payload[1] = 8 /\ payload[t + 1] = 16
        THEN DecodeVarint(SubSeq(payload, t + 2, VarintEnd(payload, t + 2)))
        ELSE -1

\* C7: in the teleprompter send flow the first packet after the handshake
\* carries sequence 0x08 (one past the last handshake packet) and message id
\* 0x14, and every later packet (config, init, pages, marker, sync) carries
\* the sequence number and the message id of the packet before it plus one.
C7_TeleprompterCounters ==
    (flow = "tp" /\ Len(writes) > 7) =>
        LET n == Len(writes)
            frame == LastWrite.data
            prev == writes[n - 1].data
        IN  /\ frame[3] = prev[3] + 1
            /\ IF n = 8
               THEN frame[3] = 8 /\ MsgIdOf(PayloadOf(frame)) = 20
               ELSE MsgIdOf(PayloadOf(frame)) = MsgIdOf(PayloadOf(prev)) + 1

\* the whole stream has been sent: fifteen pages and more, the last ones
\* after the sync packet, the message id past one varint byte
C7_Witness ==
    /\ flow = "tp" /\ pc = "done" /\ exc = "none"
    /\ Len(writes) >= 7 + 4 + 15
    /\ LastWrite.op = "PAGE"
    /\ MsgIdOf(PayloadOf(LastWrite.data)) > 127
    /\ \E i \in 8..Len(writes) : writes[i].op = "SYNC"

\* the number of frames of the handshake the flow uses
HandshakeLen == IF flow = "notif" THEN 3 ELSE 7

\* the first k writes to eye e are the handshake frames 1..k, in order
HandshakeDone(e, k) ==
    /\ Len(OnEp(e)) >= k
    /\ \A i \in 1..k : OnEp(e)[i].ch = "CHAR_WRITE" /\ HandshakeFrameOK(OnEp(e)[i].data, i)

\* C8: on every endpoint the handshake frames are written first and in their
\* fixed order: the k-th write to an eye, k up to the handshake's length, is
\* handshake frame k, and any later write finds the whole handshake written
\* to that eye; in the notification flow both eyes have had their whole
\* handshake before anything is written to the notification characteristic.
C8_HandshakeFirst ==
    writes # <<>> =>
        LET w == LastWrite
            k == Len(OnEp(w.ep))
        IN  /\ IF k <= HandshakeLen
               THEN w.ch = "CHAR_WRITE" /\ HandshakeFrameOK(w.data, k)
               ELSE HandshakeDone(w.ep, HandshakeLen)
            /\ w.ch = "CHAR_NOTIF_WRITE" =>
                  HandshakeDone("left", HandshakeLen) /\ HandshakeDone("right", HandshakeLen)

\* a notification run written to its end: FILE_CHECK on the right eye and
\* the heartbeat on the left, each after that eye's three handshake frames
C8_Witness ==
    /\ flow = "notif" /\ pc = "done" /\ writes # <<>>
    /\ LastWrite.op = "HEARTBEAT" /\ LastWrite.ep = "left"
    /\ \E i \in 1..Len(writes) : writes[i].op = "FILE_CHECK" /\ writes[i].ep = "right"

---------------------------------------------------------------------------
(* Properties of the notification truncation (under SpecJson) *)

\* the values build_notification_json works with for the arguments of the run
JsonFull ==
    make_json(args.title, args.subtitle, args.message, args.app_id, args.display_name,
              args.ts, args.date)

JsonAvailable ==
    args.max_size - Len(make_json(<<>>, <<>>, <<>>, args.app_id, args.display_name,
                                  args.ts, args.date))

JsonFields == current_fields(args.title, args.subtitle, args.message, JsonAvailable)

\* the call has returned on the truncation path
JsonTruncated ==
    flow = "json" /\ pc = "build_notification_json" /\ Len(JsonFull) > args.max_size

EndsWithDots(s) == Len(s) >= 3 /\ SubSeq(s, Len(s) - 2, Len(s)) = <<46, 46, 46>>

\* r is text cut short: a proper prefix of text, with or without "..." after it
IsCut(r, text) ==
    /\ Len(r) < Len(text)
    /\ \/ r = SubSeq(text, 1, Len(r))
       \/ EndsWithDots(r) /\ SubSeq(r, 1, Len(r) - 3) = SubSeq(text, 1, Len(r) - 3)

\* C11: when the full notification exceeds the budget, the record returned
\* is built from these fields: if len(title) + len(subtitle) <= available,
\* title and subtitle unchanged and the message unchanged or cut to at most
\* available - len(title) - len(subtitle) characters; otherwise no message,
\* the subtitle cut short (or empty), and the title unchanged whenever the
\* title alone fits in available.
C11_TruncationOrder ==
    JsonTruncated =>
        LET t == JsonFields[1]
            s == JsonFields[2]
            m == JsonFields[3]
        IN  /\ ret.val[2] = TRUE
            /\ ret.val[1] = make_json(t, s, m, args.app_id, args.display_name,
                                      args.ts, args.date)
            /\ IF Len(args.title) + Len(args.subtitle) <= JsonAvailable
               THEN /\ t = args.title /\ s = args.subtitle
                    /\ m = args.message \/ IsCut(m, args.message)
                    /\ Len(m) <= JsonAvailable - Len(args.title) - Len(args.subtitle)
               ELSE /\ m = <<>>
                    /\ s = <<>> \/ IsCut(s, args.subtitle)
                    /\ Len(s) <= Max2(0, JsonAvailable - Len(args.title))
                    /\ Len(args.title) <= JsonAvailable => t = args.title

\* a long message after a short title and subtitle is the only field cut,
\* and a subtitle is cut after a title that fits
C11_Witness ==
    /\ JsonTruncated
    /\ \/ /\ Len(args.message) = 1000 /\ Len(args.title) = 5 /\ Len(args.subtitle) = 3
          /\ EndsWithDots(JsonFields[3]) /\ Len(JsonFields[3]) > 3
       \/ /\ Len(args.subtitle) = 40 /\ Len(args.title) = 5
          /\ EndsWithDots(JsonFields[2]) /\ JsonFields[1] = args.title

\* C12: the title is altered only as a last resort: whenever the returned
\* title differs from the input title the returned subtitle and message are
\* empty; the returned title is not empty when the input title is not and
\* available >= 1; a truncated title has at most available characters and
\* ends with "..." when available > 3 (no characters when available is
\* negative).
C12_TitleLastResort ==
    JsonTruncated =>
        LET t == JsonFields[1]
        IN  /\ ret.val[1] = make_json(t, JsonFields[2], JsonFields[3], args.app_id,
                                      args.display_name, args.ts, args.date)
            /\ t # args.title => JsonFields[2] = <<>> /\ JsonFields[3] = <<>>
            /\ (args.title # <<>> /\ JsonAvailable >= 1) => t # <<>>
            /\ t # args.title =>
                  /\ Len(t) <= Max2(0, JsonAvailable)
                  /\ JsonAvailable > 3 => EndsWithDots(t)

---------------------------------------------------------------------------
(* CRC-32C and the FILE_CHECK fields as pure functions: notification_trunc.py *)

MaxDataLen == 260

\* the bytes 0, 1, 2, ... (mod 256) from start on, n of them
Ramp(start, n) == [i \in 1..n |-> (start + i - 1) % 256]

CrcData ==
    {<<b>> : b \in 0..255}
    \cup {Ramp(s, n) : s \in {0, 49, 128, 250}, n \in {0, 2, 3, 9, 234, MaxDataLen}}
    \cup {Repeat(b, n) : b \in {0, 255}, n \in {2, 4, 5, MaxDataLen}}

InitCrc ==
    /\ flow = "crc" /\ pc = "start"
    /\ args \in {[data |-> d] : d \in CrcData}
    /\ ret = NoRet /\ writes = <<>> /\ seq = 0 /\ magic = 0 /\ exc = "none"
    /\ loc = [k |-> 0]

CallCalcCrc32c ==
    /\ flow = "crc" /\ pc = "start"
    /\ pc' = "calc_crc32c"
    /\ ret' = Ok(calc_crc32c(args.data))
    /\ UNCHANGED <<flow, args, writes, seq, magic, exc, loc>>

CallCalcFileCheckFields ==
    /\ flow = "crc" /\ pc = "start"
    /\ pc' = "calc_file_check_fields"
    /\ ret' = Ok(calc_file_check_fields(args.data))
    /\ UNCHANGED <<flow, args, writes, seq, magic, exc, loc>>

CallFcPayload ==
    /\ flow = "crc" /\ pc = "start"
    /\ pc' = "fc_payload"
    /\ ret' = Ok(fc_payload(args.data))
    /\ UNCHANGED <<flow, args, writes, seq, magic, exc, loc>>

NextCrc == CallCalcCrc32c \/ CallCalcFileCheckFields \/ CallFcPayload

SpecCrc == InitCrc /\ [][NextCrc]_vars

\* Reference: the CRC computed bit by bit, most significant bit first, on a
\* 32-bit register held as four bytes, polynomial 0x1EDC6F41
RefPoly32 == <<30, 220, 111, 65>>

RefXor4(a, b) == <<Xor(a[1], b[1]), Xor(a[2], b[2]), Xor(a[3], b[3]), Xor(a[4], b[4])>>

RefShift32(r) ==
    LET shifted == <<(2 * r[1] + r[2] \div 128) % 256, (2 * r[2] + r[3] \div 128) % 256,
                     (2 * r[3] + r[4] \div 128) % 256, (2 * r[4]) % 256>>
    IN  IF r[1] >= 128 THEN RefXor4(shifted, RefPoly32) ELSE shifted

RefCrc32Byte(r, b) ==
    LET r0 == <<Xor(r[1], b), r[2], r[3], r[4]>>
        r1 == RefShift32(r0)
        r2 == RefShift32(r1)
        r3 == RefShift32(r2)
        r4 == RefShift32(r3)
        r5 == RefShift32(r4)
        r6 == RefShift32(r5)
        r7 == RefShift32(r6)
    IN  RefShift32(r7)

RECURSIVE RefCrc32Range(_, _, _, _)
RefCrc32Range(data, lo, hi, r) ==
    IF lo > hi THEN r
    ELSE IF lo = hi THEN RefCrc32Byte(r, data[lo])
    ELSE LET mid == (lo + hi) \div 2
             left == RefCrc32Range(data, lo, mid, r)
         IN  Then(left, RefCrc32Range(data, mid + 1, hi, left))

\* initial value 0, no final XOR
RefCrc32c(data) == RefCrc32Range(data, 1, Len(data), <<0, 0, 0, 0>>)

\* the little-endian u32 bytes of 256 * n, for n < 2^24
RefSizeLE(n) == <<0, n % 256, (n \div 256) % 256, (n \div 65536) % 256>>

\* C15: calc_file_check_fields returns size = len(data) * 256, checksum =
\* (crc32c(data) << 8) mod 2^32 and extra = crc32c(data) >> 24, each fitting
\* its field, so that (extra << 24) | (checksum >> 8) is crc32c(data); the
\* FILE_CHECK payload is magic 0x100, size and checksum as little-endian
\* u32, the extra byte, then the filename zero-padded to 80 bytes: 93 bytes.
C15_FileCheckFields ==
    LET crc == RefCrc32c(args.data)
        n == Len(args.data)
    IN  /\ (flow = "crc" /\ pc = "calc_file_check_fields") =>
              /\ ret.val.size = n * 256
              /\ ret.val.size \in 0..2147483647
              /\ ret.val.checksum = <<crc[2], crc[3], crc[4], 0>>
              /\ ret.val.extra = crc[1]
              /\ ret.val.extra \in 0..255
              /\ <<ret.val.extra, ret.val.checksum[1], ret.val.checksum[2],
                   ret.val.checksum[3]>> = crc
        /\ (flow = "crc" /\ pc = "fc_payload") =>
              /\ Len(ret.val) = 93
              /\ SubSeq(ret.val, 1, 4) = <<0, 1, 0, 0>>
              /\ SubSeq(ret.val, 5, 8) = RefSizeLE(n)
              /\ SubSeq(ret.val, 9, 12) = <<0, crc[4], crc[3], crc[2]>>
              /\ ret.val[13] = crc[1]
              /\ SubSeq(ret.val, 14, 13 + Len(notify_filename)) = notify_filename
              /\ \A i \in (14 + Len(notify_filename))..93 : ret.val[i] = 0

\* the fields and the payload of a 234-byte string with a CRC whose top
\* byte is not zero
C15_Witness ==
    /\ flow = "crc" /\ pc \in {"calc_file_check_fields", "fc_payload"}
    /\ Len(args.data) = 234
    /\ RefCrc32c(args.data)[1] # 0
    /\ pc = "fc_payload" => ret.val[13] # 0 /\ ret.val[6] = 234

\* C16: calc_crc32c equals the bitwise, most-significant-bit-first CRC with
\* polynomial 0x1EDC6F41, initial value 0 and no final XOR; entry i of the
\* table is that CRC of the single byte i.
C16_TableMatchesBitwise ==
    (flow = "crc" /\ pc = "calc_crc32c") =>
        /\ ret.val = RefCrc32c(args.data)
        /\ Len(args.data) = 1 => CRC32C_TABLE[args.data[1] + 1] = RefCrc32c(args.data)

\* the CRC of a string of several bytes whose register has a non-zero top
\* byte on the way, and of the single byte 255
C16_Witness ==
    /\ flow = "crc" /\ pc = "calc_crc32c"
    /\ \/ /\ Len(args.data) = 9 /\ args.data[1] = 49
          /\ ret.val = <<192, 82, 168, 200>>
       \/ /\ args.data = <<255>> /\ ret.val = CRC32C_TABLE[256]

---------------------------------------------------------------------------
(* encode_varint on 64-bit values: even_ai.py *)

(* A value up to 2^64 - 1 is held as three limbs <<l0, l1, l2>> standing for *)
(* l0 + l1 * 2^28 + l2 * 2^56, with l0, l1 < 2^28 and l2 < 2^8, because      *)
(* integers here stop at 2^31 - 1.                                           *)

\* value > 0x7F
u64_gt_7f(v) == v[3] > 0 \/ v[2] > 0 \/ v[1] > 127

\* value & 0x7F
u64_low7(v) == v[1] % 128

\* value >> 7
u64_shr7(v) ==
    <<v[1] \div 128 + (v[2] % 128) * 2097152,
      v[2] \div 128 + (v[3] % 128) * 2097152,
      v[3] \div 128>>

RECURSIVE encode_varint_u64_ge(_)
\* the loop with `value >= 0x7F` as its condition
encode_varint_u64_ge(v) ==
    IF u64_gt_7f(v) \/ v = <<127, 0, 0>>
    THEN <<u64_low7(v) + 128>> \o encode_varint_u64_ge(u64_shr7(v))
    ELSE <<u64_low7(v)>>

RECURSIVE encode_varint_u64(_)
\* encode_varint of even_ai.py on a value given by its limbs
encode_varint_u64(v) ==
    IF u64_gt_7f(v)
    THEN <<u64_low7(v) + 128>> \o encode_varint_u64(u64_shr7(v))
    ELSE <<u64_low7(v)>>

MaxSmallValue == 300

\* 2^e for e in 0..63, and 2^e - 1 for e in 0..64, as limbs
Pow2Limbs(e) ==
    <<IF e < 28 THEN 2^e ELSE 0,
      IF e >= 28 /\ e < 56 THEN 2^(e - 28) ELSE 0,
      IF e >= 56 THEN 2^(e - 56) ELSE 0>>

OnesLimbs(e) ==
    <<IF e < 28 THEN 2^e - 1 ELSE 268435455,
      IF e < 28 THEN 0 ELSE IF e < 56 THEN 2^(e - 28) - 1 ELSE 268435455,
      IF e < 56 THEN 0 ELSE 2^(e - 56) - 1>>

VarintValues ==
    {<<n, 0, 0>> : n \in 0..MaxSmallValue}
    \cup {Pow2Limbs(e) : e \in 0..63}
    \cup {OnesLimbs(e) : e \in 0..64}
    \cup {<<a, b, c>> : a \in {0, 1, 180150001, 268435455},
                        b \in {0, 1, 99999999, 268435455},
                        c \in {0, 1, 128, 255}}

InitVarint ==
    /\ flow = "varint" /\ pc = "start"
    /\ args \in {[value |-> v] : v \in VarintValues}
    /\ ret = NoRet /\ writes = <<>> /\ seq = 0 /\ magic = 0 /\ exc = "none"
    /\ loc = [k |-> 0]

CallEncodeVarint ==
    /\ flow = "varint" /\ pc = "start"
    /\ pc' = "encode_varint"
    /\ ret' = Ok(encode_varint_u64(args.value))
    /\ UNCHANGED <<flow, args, writes, seq, magic, exc, loc>>

\* the same call on a value that fits an integer here
CallEncodeVarintInt ==
    /\ flow = "varint" /\ pc = "start"
    /\ args.value[3] = 0 /\ args.value[2] < 8
    /\ pc' = "encode_varint_int"
    /\ ret' = Ok(encode_varint_ai(args.value[1] + args.value[2] * 268435456))
    /\ UNCHANGED <<flow, args, writes, seq, magic, exc, loc>>

NextVarint == CallEncodeVarint \/ CallEncodeVarintInt

SpecVarint == InitVarint /\ [][NextVarint]_vars

\* Reference decoder: the groups of 7 bits, least significant first, summed
\* into limbs (the top limb is left unreduced, so that a value past
\* 2^64 - 1 decodes to limbs no 64-bit value has)
RefShl7Add(v, g) ==
    <<(v[1] % 2097152) * 128 + g,
      (v[2] % 2097152) * 128 + v[1] \div 2097152,
      v[3] * 128 + v[2] \div 2097152>>

RECURSIVE RefDecodeFrom(_, _)
RefDecodeFrom(bs, i) ==
    IF i > Len(bs) THEN <<0, 0, 0>>
    ELSE RefShl7Add(RefDecodeFrom(bs, i + 1), bs[i] % 128)

RefDecodeVarint(bs) == RefDecodeFrom(bs, 1)

\* C17: for every unsigned 64-bit value v, encode_varint(v) is the minimal
\* base-128 encoding, least-significant group first: the continuation bit
\* is set on every byte except the last, the last byte is non-zero unless
\* v = 0, the length is at most 10 bytes, and decoding the bytes returns v.
C17_VarintMinimal ==
    /\ (flow = "varint" /\ pc = "encode_varint") =>
          LET bs == ret.val
          IN  /\ Len(bs) \in 1..10
              /\ \A i \in 1..Len(bs) : bs[i] \in 0..255
              /\ \A i \in 1..(Len(bs) - 1) : bs[i] >= 128
              /\ Last(bs) < 128
              /\ args.value # <<0, 0, 0>> => Last(bs) # 0
              /\ args.value = <<0, 0, 0>> => bs = <<0>>
              /\ RefDecodeVarint(bs) = args.value
    /\ (flow = "varint" /\ pc = "encode_varint_int") =>
          ret.val = encode_varint_u64(args.value) /\ RefDecodeVarint(ret.val) = args.value

\* the ten bytes of 2^64 - 1, the ten bytes of 2^63, and the two bytes of 128
C17_Witness ==
    /\ flow = "varint" /\ pc = "encode_varint"
    /\ \/ args.value = <<268435455, 268435455, 255>>
          /\ ret.val = <<255, 255, 255, 255, 255, 255, 255, 255, 255, 1>>
       \/ args.value = <<0, 0, 128>>
          /\ ret.val = <<128, 128, 128, 128, 128, 128, 128, 128, 128, 1>>
       \/ args.value = <<128, 0, 0>> /\ ret.val = <<128, 1>>

---------------------------------------------------------------------------
(* format_text as a pure function: teleprompter.py *)

MaxFormatLines == 150

MaxWordLen == 30

\* words of one letter separated by single spaces, n of them
Letters(n) == [i \in 1..(2 * n - 1) |-> IF i % 2 = 1 THEN 97 + ((i \div 2) % 26) ELSE 32]

FormatTexts ==
    { <<>>,
      <<72, 105>>,
      <<32, 9, 32>>,
      <<84, 104, 101, 32, 113, 117, 105, 99, 107, 32, 98, 114, 111, 119, 110, 32, 102, 111, 120>>,
      <<97, 10, 10, 98, 32, 99, 10>>,
      <<111, 110, 101, 92, 110, 116, 119, 111, 32, 32, 116, 104, 114, 101, 101, 92, 110>>,
      <<92, 92, 110, 110, 92, 32, 110, 92, 92>>,
      <<97, 9, 98, 13, 99, 8232, 100, 32, 32, 101, 160, 102, 10, 11, 103>>,
      <<233, 32, 20013, 32, 128512, 128512>>,
      <<104, 105, 32>> \o Repeat(120, MaxWordLen) \o <<32, 121, 111>>,
      <<97, 98, 32, 99, 100, 32>> \o Repeat(120, MaxWordLen) \o <<32, 101, 102, 32, 103>>,
      Letters(20),
      Letters(40) \o <<92, 110>> \o Letters(5),
      Repeat(10, MaxFormatLines) }

FormatArgs ==
    [text : FormatTexts, chars_per_line : {1, 7, 25}, lines_per_page : {1, 3, 10},
     max_text_bytes : {0, 12, 40}]

InitFormat ==
    /\ flow = "format" /\ pc = "start"
    /\ args \in FormatArgs
    /\ ret = NoRet /\ writes = <<>> /\ seq = 0 /\ magic = 0 /\ exc = "none"
    /\ loc = [k |-> 0]

CallFormatText ==
    /\ flow = "format" /\ pc = "start"
    /\ pc' = "format_text"
    /\ ret' = format_text(args.text, args.chars_per_line, args.lines_per_page,
                          args.max_text_bytes)
    /\ UNCHANGED <<flow, args, writes, seq, magic, exc, loc>>

NextFormat == CallFormatText

SpecFormat == InitFormat /\ [][NextFormat]_vars

\* the number of newline characters of a page
RefNewlines(page) == Cardinality({i \in 1..Len(page) : page[i] = 10})

\* C19: for every text, every chars_per_line >= 1 and every lines_per_page
\* >= 1, format_text returns (with no byte budget it always does) at least
\* 14 pages, and every page, content or padding, consists of exactly
\* lines_per_page lines, each ended by a newline.
C19_PagesWellFormed ==
    (flow = "format" /\ pc = "format_text") =>
        /\ args.max_text_bytes = 0 => ret.exc = "none"
        /\ ret.exc = "none" =>
              /\ Len(ret.val) >= 14
              /\ \A p \in 1..Len(ret.val) :
                    /\ RefNewlines(ret.val[p]) = args.lines_per_page
                    /\ Last(ret.val[p]) = 10

\* more content pages than the minimum, the last one filled up with padding
\* lines, and a short text padded to 14 pages
C19_Witness ==
    /\ flow = "format" /\ pc = "format_text" /\ args.max_text_bytes = 0
    /\ \/ /\ Len(ret.val) > 14 /\ args.lines_per_page = 3
          /\ Len(args.text) = 90 /\ args.chars_per_line = 1
       \/ /\ Len(ret.val) = 14 /\ args.text = <<72, 105>>

\* s with every whitespace run cut down to one space, none before the first
\* word and one after the last: the words of s in order
RefWordsOf(s) ==
    LET t == s \o <<32>>
        ws(i) == t[i] \in Whitespace
        keep(i) == ~ws(i) \/ (i > 1 /\ ~ws(i - 1))
        ks == SelectSeq([i \in 1..Len(t) |-> i], keep)
    IN  [k \in 1..Len(ks) |-> IF ws(ks[k]) THEN 32 ELSE t[ks[k]]]

\* the input with each escaped newline (a backslash and the n after it)
\* blanked out
RefBlankEscapes(text) ==
    [i \in 1..Len(text) |->
        IF \/ text[i] = 92 /\ i < Len(text) /\ text[i + 1] = 110
           \/ text[i] = 110 /\ i > 1 /\ text[i - 1] = 92
        THEN 32 ELSE text[i]]

RECURSIVE RefConcat(_, _, _)
RefConcat(pages, lo, hi) ==
    IF lo > hi THEN <<>>
    ELSE IF lo = hi THEN pages[lo]
    ELSE RefConcat(pages, lo, (lo + hi) \div 2) \o RefConcat(pages, ((lo + hi) \div 2) + 1, hi)

\* C20: with no byte budget, the whitespace-separated words of the pages
\* returned by format_text, in page order and line order, are exactly the
\* whitespace-separated words of the input (literal and escaped newlines
\* counting as whitespace) in their original order.
C20_WordsPreserved ==
    (flow = "format" /\ pc = "format_text" /\ args.max_text_bytes = 0) =>
        /\ ret.exc = "none"
        /\ RefWordsOf(RefConcat(ret.val, 1, Len(ret.val)))
              = RefWordsOf(RefBlankEscapes(args.text))

\* words wrapped onto several lines, with escaped newlines and a word
\* longer than the line among them
C20_Witness ==
    /\ flow = "format" /\ pc = "format_text" /\ args.max_text_bytes = 0
    /\ args.chars_per_line = 7
    /\ \/ args.text = <<111, 110, 101, 92, 110, 116, 119, 111, 32, 32, 116, 104, 114, 101,
                         101, 92, 110>>
       \/ Len(args.text) = MaxWordLen + 6
    /\ RefWordsOf(RefConcat(ret.val, 1, Len(ret.val))) # <<>>

\* the page format_text pads its result with
RefPaddingPage(lines_per_page) ==
    [i \in 1..(2 * lines_per_page + 1) |->
        IF i % 2 = 1 /\ i <= 2 * lines_per_page - 1 THEN 32
        ELSE IF i = 2 * lines_per_page THEN 32 ELSE 10]

\* C21: byte-budget enforcement in format_text always ends, for every text
\* and every max_text_bytes > 0: either every page it validated, together
\* with its leading newline, is at most max_text_bytes UTF-8 bytes after
\* shortening, or the caller is told TextBudgetExceeded; the shortening
\* loop never runs without making progress.
C21_BudgetLoopEnds ==
    (flow = "format" /\ pc = "format_text" /\ args.max_text_bytes > 0) =>
        /\ ret.exc \in {"none", "TextBudgetExceeded"}
        /\ ret.exc = "none" =>
              \A p \in 1..Len(ret.val) :
                  \/ ret.val[p] = RefPaddingPage(args.lines_per_page)
                  \/ Len(utf8(<<10>> \o ret.val[p])) <= args.max_text_bytes

\* the lines of one page: the page without its final " \n", split at newlines
RefPageLines(page) == split_range(page, 1, Len(page) - 2, {10})

RECURSIVE RefAllLines(_, _, _)
\* the lines of pages[lo..hi], in page order
RefAllLines(pages, lo, hi) ==
    IF lo > hi THEN <<>>
    ELSE IF lo = hi THEN RefPageLines(pages[lo])
    ELSE RefAllLines(pages, lo, (lo + hi) \div 2)
         \o RefAllLines(pages, ((lo + hi) \div 2) + 1, hi)

RECURSIVE RefPackFrom(_, _, _, _, _)
\* Greedy packing of words[k..]: cur is the current line, its words joined
\* by single spaces; a word goes onto it whenever
\* len(cur) + len(word) + 1 <= chars_per_line
RefPackFrom(words, k, lines, cur, chars_per_line) ==
    IF k > Len(words) THEN (IF cur = <<>> THEN lines ELSE Append(lines, cur))
    ELSE IF cur = <<>> THEN RefPackFrom(words, k + 1, lines, words[k], chars_per_line)
    ELSE IF Len(cur) + Len(words[k]) + 1 <= chars_per_line
         THEN RefPackFrom(words, k + 1, lines, cur \o <<32>> \o words[k], chars_per_line)
    ELSE RefPackFrom(words, k + 1, Append(lines, cur), words[k], chars_per_line)

RECURSIVE RefWrapRange(_, _, _, _)
\* the wrapped lines of the input lines lines[lo..hi]: an empty line for a
\* blank one, the greedy packing of its words for any other
RefWrapRange(lines, lo, hi, chars_per_line) ==
    IF lo > hi THEN <<>>
    ELSE IF lo = hi
         THEN IF split_words(lines[lo]) = <<>> THEN << <<>> >>
              ELSE RefPackFrom(split_words(lines[lo]), 1, <<>>, <<>>, chars_per_line)
    ELSE RefWrapRange(lines, lo, (lo + hi) \div 2, chars_per_line)
         \o RefWrapRange(lines, ((lo + hi) \div 2) + 1, hi, chars_per_line)

RefWrapped(text, chars_per_line) ==
    LET lines == split_newline(replace_escaped_newlines(text))
    IN  RefWrapRange(lines, 1, Len(lines), chars_per_line)

\* C23: format_text packs words greedily: taking the current length of a
\* line to be its words joined by single spaces, a word is placed on the
\* current line whenever current length + word length + 1 <= chars_per_line,
\* a new line is started only when that does not hold, and a word longer
\* than chars_per_line is never split: the lines of the pages are the
\* greedily packed lines, followed by padding lines only.
C23_GreedyPacking ==
    (flow = "format" /\ pc = "format_text" /\ args.max_text_bytes = 0) =>
        LET out == RefAllLines(ret.val, 1, Len(ret.val))
            exp == RefWrapped(args.text, args.chars_per_line)
        IN  /\ Len(out) >= Len(exp)
            /\ SubSeq(out, 1, Len(exp)) = exp
            /\ \A i \in (Len(exp) + 1)..Len(out) : out[i] = <<32>>

---------------------------------------------------------------------------
(* truncate_for_display as a pure function: llm_teleprompter.py *)

TruncTexts ==
    { <<>>, <<97>>, <<97, 98, 99>>, <<97, 98, 99, 100>>, <<233>>, <<97, 233, 128512, 122>>,
      Repeat(8364, 60), Repeat(128512, 50), Repeat(120, MaxTextLen) }

TruncBudgets == {0, 1, 2, 3, 4, 5, 6, 7, 10, 149, 150, 151, 200, MaxTextLen}

InitTrunc ==
    /\ flow = "trunc" /\ pc = "start"
    /\ args \in [text : TruncTexts, max_bytes : TruncBudgets]
    /\ ret = NoRet /\ writes = <<>> /\ seq = 0 /\ magic = 0 /\ exc = "none"
    /\ loc = [k |-> 0]

CallTruncateForDisplay ==
    /\ flow = "trunc" /\ pc = "start"
    /\ pc' = "truncate_for_display"
    /\ ret' = truncate_for_display(args.text, args.max_bytes)
    /\ UNCHANGED <<flow, args, writes, seq, magic, exc, loc>>

NextTrunc == CallTruncateForDisplay

SpecTrunc == InitTrunc /\ [][NextTrunc]_vars

\* C25: for every text and every max_bytes >= 0, truncate_for_display
\* terminates and returns a string of at most max_bytes UTF-8 bytes: the
\* input unchanged when it already fits, otherwise a prefix of the input
\* (whole characters) followed by "...".
C25_TruncateFits ==
    (flow = "trunc" /\ pc = "truncate_for_display") =>
        /\ ret.exc = "none"
        /\ Len(utf8(ret.val)) <= args.max_bytes
        /\ IF Len(utf8(args.text)) <= args.max_bytes THEN ret.val = args.text
           ELSE /\ EndsWithDots(ret.val)
                /\ Len(ret.val) - 3 < Len(args.text)
                /\ SubSeq(ret.val, 1, Len(ret.val) - 3) = SubSeq(args.text, 1, Len(ret.val) - 3)

\* C26: every wrapped line that format_text puts on a page has at most
\* chars_per_line characters, unless it is one single word longer than
\* chars_per_line, which then stands alone and unbroken on its line.
C26_LineWidth ==
    (flow = "format" /\ pc = "format_text" /\ args.max_text_bytes = 0) =>
        /\ ret.exc = "none"
        /\ LET out == RefAllLines(ret.val, 1, Len(ret.val))
               words == split_words(replace_escaped_newlines(args.text))
           IN  \A i \in 1..Len(out) :
                   \/ Len(out[i]) <= args.chars_per_line
                   \/ /\ \A k \in 1..Len(out[i]) : out[i][k] \notin Whitespace
                      /\ \E w \in 1..Len(words) : words[w] = out[i]

\* a word longer than the line width alone on its line, next to lines that
\* hold several words
C26_Witness ==
    /\ flow = "format" /\ pc = "format_text" /\ args.max_text_bytes = 0
    /\ ret.exc = "none" /\ args.chars_per_line = 7
    /\ LET out == RefAllLines(ret.val, 1, Len(ret.val))
       IN  /\ \E i \in 1..Len(out) : Len(out[i]) > 7
           /\ \E i \in 1..Len(out) : Len(out[i]) <= 7 /\ \E k \in 1..Len(out[i]) : out[i][k] = 32 /\ Len(out[i]) > 1

---------------------------------------------------------------------------
(* The payload encoders as pure functions: even_ai.py and teleprompter.py *)

MaxEncodedText == 130

AiEncoders == {"build_ctrl_enter", "build_ctrl_exit", "build_ask", "build_reply"}

TpEncoders == {"build_display_config", "build_teleprompter_init", "build_content_page",
               "build_marker", "build_sync"}

\* magic and message identifiers on both sides of the one-byte varint limit
EncodeIds == {0, 1, 100, 127, 128, 200, 255}

\* page indexes and line counts
EncodeNumbers == {0, 1, 10, 127, 128, 140, 300}

EncodeTexts == { <<>>, <<72, 105>>, <<233, 32, 20013, 32, 128512>>,
                 Repeat(120, MaxEncodedText) }

EncodeArgs ==
    [op : AiEncoders \cup TpEncoders, id : EncodeIds, n : EncodeNumbers,
     text : EncodeTexts, manual_mode : BOOLEAN]

InitEncode ==
    /\ flow = "encode" /\ pc = "start"
    /\ args \in EncodeArgs
    /\ ret = NoRet /\ writes = <<>> /\ seq = 0 /\ magic = 0 /\ exc = "none"
    /\ loc = [k |-> 0]

CallAiEncoder ==
    /\ flow = "encode" /\ pc = "start" /\ args.op \in AiEncoders
    /\ pc' = "built"
    /\ ret' = CASE args.op = "build_ctrl_enter" -> build_ctrl_enter(8, args.id)
                [] args.op = "build_ctrl_exit" -> build_ctrl_exit(8, args.id)
                [] args.op = "build_ask" -> build_ask(8, args.id, args.text)
                [] OTHER -> build_reply(8, args.id, args.text)
    /\ UNCHANGED <<flow, args, writes, seq, magic, exc, loc>>

CallTpEncoder ==
    /\ flow = "encode" /\ pc = "start" /\ args.op \in TpEncoders
    /\ pc' = "built"
    /\ ret' = CASE args.op = "build_display_config" -> build_display_config(8, args.id)
                [] args.op = "build_teleprompter_init" ->
                       build_teleprompter_init(8, args.id, args.n, args.manual_mode)
                [] args.op = "build_content_page" ->
                       build_content_page(8, args.id, args.n, args.text)
                [] args.op = "build_marker" -> build_marker(8, args.id)
                [] OTHER -> build_sync(8, args.id)
    /\ UNCHANGED <<flow, args, writes, seq, magic, exc, loc>>

NextEncode == CallAiEncoder \/ CallTpEncoder

SpecEncode == InitEncode /\ [][NextEncode]_vars

\* the varint that starts at b[p] and ends at or before b[hi]: its value and
\* the position after it, or <<-1, 0>> when the bytes are no varint
RefVarintAt(b, p, hi) ==
    IF p > hi THEN <<-1, 0>>
    ELSE IF b[p] < 128 THEN <<b[p], p + 1>>
    ELSE IF p + 1 > hi THEN <<-1, 0>>
    ELSE IF b[p + 1] < 128 THEN <<(b[p] - 128) + 128 * b[p + 1], p + 2>>
    ELSE IF p + 2 > hi THEN <<-1, 0>>
    ELSE IF b[p + 2] < 128
         THEN <<(b[p] - 128) + 128 * (b[p + 1] - 128) + 16384 * b[p + 2], p + 3>>
    ELSE <<-1, 0>>

RefMalformed == << [tag |-> -1, val |-> 0, lo |-> 0, hi |-> 0] >>

RefIsMalformed(fields) == fields # <<>> /\ fields[1].tag = -1

RECURSIVE RefFields(_, _, _)
\* the fields of the message b[lo..hi]: a tag byte of wire type 0 is followed
\* by a varint, a tag byte of wire type 2 by a varint length and that many
\* bytes; RefMalformed when the bytes do not divide up that way
RefFields(b, lo, hi) ==
    IF lo > hi THEN <<>>
    ELSE LET tag == b[lo]
             v == RefVarintAt(b, lo + 1, hi)
         IN  IF tag % 8 \notin {0, 2} \/ v[1] = -1 THEN RefMalformed
             ELSE IF tag % 8 = 0
                  THEN LET rest == RefFields(b, v[2], hi)
                       IN  IF RefIsMalformed(rest) THEN RefMalformed
                           ELSE <<[tag |-> tag, val |-> v[1], lo |-> 0, hi |-> 0]>> \o rest
             ELSE IF v[2] + v[1] - 1 > hi THEN RefMalformed
             ELSE LET rest == RefFields(b, v[2] + v[1], hi)
                  IN  IF RefIsMalformed(rest) THEN RefMalformed
                      ELSE <<[tag |-> tag, val |-> v[1], lo |-> v[2],
                              hi |-> v[2] + v[1] - 1]>> \o rest

\* the tags and numeric values of a parsed message, length-delimited
\* fields with their length
RefTagsVals(fields) == [i \in 1..Len(fields) |-> <<fields[i].tag, fields[i].val>>]

\* the intended fields of the info sub-message of ASK and REPLY
RefInfoShape(text) == << <<8, 0>>, <<16, 0>>, <<24, 0>>, <<34, Len(utf8(text))>> >>

\* C27: every payload built by the AI and teleprompter encoders is a
\* well-formed nested tag/length/value message, for every text, every magic
\* or message id in 0..255 and every page index: each numeric field holds a
\* valid varint of the intended value and each declared length is the exact
\* byte count of the value that follows (the display-config blob declared
\* 0x6A, the settings and display sub-messages of init, askInfo, replyInfo
\* and the content-page sub-message).
C27_WellFormedPayloads ==
    (flow = "encode" /\ pc = "built" /\ ret.exc = "none") =>
        LET p == PayloadOf(ret.val)
            top == RefFields(p, 1, Len(p))
            sub == RefFields(p, top[3].lo, top[3].hi)
            cmd == CASE args.op \in {"build_ctrl_enter", "build_ctrl_exit",
                                      "build_teleprompter_init"} -> 1
                     [] args.op = "build_display_config" -> 2
                     [] args.op \in {"build_ask", "build_content_page"} -> 3
                     [] args.op = "build_reply" -> 5
                     [] args.op = "build_marker" -> 255
                     [] OTHER -> 14
            sub_tag == CASE args.op \in {"build_ctrl_enter", "build_ctrl_exit",
                                          "build_teleprompter_init"} -> 26
                         [] args.op = "build_display_config" -> 34
                         [] args.op \in {"build_ask", "build_content_page"} -> 42
                         [] args.op = "build_reply" -> 58
                         [] OTHER -> 106
        IN  /\ ~RefIsMalformed(top)
            /\ Len(top) = 3
            /\ <<top[1].tag, top[1].val>> = <<8, cmd>>
            /\ <<top[2].tag, top[2].val>> = <<16, args.id>>
            /\ top[3].tag = sub_tag /\ top[3].hi = Len(p)
            /\ CASE args.op = "build_display_config" -> top[3].val = 106
                 [] args.op = "build_sync" -> top[3].val = 0
                 [] args.op = "build_marker" -> RefTagsVals(sub) = << <<8, 0>>, <<16, 6>> >>
                 [] args.op = "build_ctrl_enter" -> RefTagsVals(sub) = << <<8, 2>> >>
                 [] args.op = "build_ctrl_exit" -> RefTagsVals(sub) = << <<8, 3>> >>
                 [] args.op \in {"build_ask", "build_reply"} ->
                        /\ RefTagsVals(sub) = RefInfoShape(args.text)
                        /\ SubSeq(p, sub[4].lo, sub[4].hi) = utf8(args.text)
                        /\ sub[4].hi = Len(p)
                 [] args.op = "build_content_page" ->
                        /\ RefTagsVals(sub) = << <<8, args.n>>, <<16, 10>>,
                                                 <<26, Len(utf8(args.text)) + 1>> >>
                        /\ SubSeq(p, sub[3].lo, sub[3].hi) = <<10>> \o utf8(args.text)
                        /\ sub[3].hi = Len(p)
                 [] OTHER ->
                        /\ ~RefIsMalformed(sub) /\ Len(sub) = 2
                        /\ <<sub[1].tag, sub[1].val>> = <<8, 1>>
                        /\ sub[2].tag = 18 /\ sub[2].hi = Len(p)
                        /\ RefTagsVals(RefFields(p, sub[2].lo, sub[2].hi))
                              = << <<8, 1>>, <<16, 0>>, <<24, 0>>, <<32, 267>>,
                                   <<40, Max2(1, (args.n * 2665) \div 140)>>,
                                   <<48, 230>>, <<56, 1294>>, <<64, 5>>,
                                   <<72, IF args.manual_mode THEN 0 ELSE 1>> >>

---------------------------------------------------------------------------
(* tools/extract_firmware.py: main, FirmwarePackage *)

\* what manifest.json of the extracted package holds: no such file, text
\* that is not JSON, an object without the key "manifest", a manifest whose
\* entries name no bin_file, a manifest of some components
ManifestKinds == {"absent", "invalid", "no_manifest_key", "no_bin_files", "components"}

\* the component names of the last kind, in manifest order
ManifestComponents == <<"application", "bootloader">>

\* the command line and the files it meets
FwArgs ==
    [extract : BOOLEAN, analyze : BOOLEAN, force : BOOLEAN, output : BOOLEAN,
     package_exists : BOOLEAN, is_zipfile : BOOLEAN, extract_dir_exists : BOOLEAN,
     manifest : ManifestKinds]

\* main up to `package = FirmwarePackage(args.package)`: no components, an
\* empty manifest, nothing printed
InitFirmware ==
    /\ flow = "fw" /\ pc = "start"
    /\ args \in FwArgs
    /\ ret = NoRet /\ writes = <<>> /\ seq = 0 /\ magic = 0 /\ exc = "none"
    /\ loc = [components |-> <<>>, manifest_loaded |-> FALSE, out |-> <<>>,
              analysis |-> [keys |-> {}, components |-> <<>>], exit |-> 0]

\* _load_components: one component for every manifest entry with a bin_file
load_components(manifest) == IF manifest = "components" THEN ManifestComponents ELSE <<>>

\* `if args.extract: if not package.extract(force=args.force): sys.exit(1)`
FwExtract ==
    /\ flow = "fw" /\ pc = "start" /\ args.extract
    /\ IF ~args.package_exists
       THEN /\ loc' = [loc EXCEPT !.out = Append(@, "Error: Package not found"), !.exit = 1]
            /\ pc' = "done"
       ELSE IF ~args.is_zipfile
       THEN /\ loc' = [loc EXCEPT !.out = Append(@, "Error: Not a valid ZIP file"), !.exit = 1]
            /\ pc' = "done"
       ELSE IF args.extract_dir_exists /\ ~args.force
       THEN /\ loc' = [loc EXCEPT !.out = @ \o <<"Extract directory already exists",
                                                 "Use --force to overwrite">>,
                                  !.exit = 1]
            /\ pc' = "done"
       ELSE IF args.manifest = "invalid"
       THEN /\ loc' = [loc EXCEPT !.out = @ \o <<"Extracting firmware package", "Extracted to",
                                                 "Error during extraction">>,
                                  !.exit = 1]
            /\ pc' = "done"
       ELSE /\ loc' = [loc EXCEPT !.out = @ \o <<"Extracting firmware package", "Extracted to">>,
                                  !.manifest_loaded = args.manifest # "absent",
                                  !.components =
                                      IF args.manifest = "absent" THEN loc.components
                                      ELSE load_components(args.manifest)]
            /\ pc' = "analyze"
    /\ UNCHANGED <<flow, args, ret, writes, seq, magic, exc>>

\* main without --extract: on to the analysis when --analyze is given
FwSkipExtract ==
    /\ flow = "fw" /\ pc = "start" /\ ~args.extract
    /\ pc' = IF args.analyze THEN "analyze" ELSE "done"
    /\ UNCHANGED <<flow, args, ret, writes, seq, magic, exc, loc>>

\* FirmwarePackage.analyze: {} when there are no components, else one entry
\* for each component
analyze(components) ==
    IF components = <<>> THEN [keys |-> {}, components |-> <<>>]
    ELSE [keys |-> {"package", "extract_dir", "components"}, components |-> components]

analyze_output(components) ==
    IF components = <<>> THEN <<"No components found. Extract package first.">>
    ELSE [i \in 1..Len(components) |-> "Analyzing"]

\* `analysis = package.analyze()`
FwAnalyze ==
    /\ flow = "fw" /\ pc = "analyze"
    /\ loc' = [loc EXCEPT !.analysis = analyze(loc.components),
                          !.out = @ \o analyze_output(loc.components)]
    /\ pc' = "print_summary"
    /\ UNCHANGED <<flow, args, ret, writes, seq, magic, exc>>

\* `package.print_summary(analysis)`: analysis['package'] is a KeyError
\* when the key is missing
FwPrintSummary ==
    /\ flow = "fw" /\ pc = "print_summary"
    /\ IF "package" \notin loc.analysis.keys
       THEN /\ exc' = "KeyError" /\ pc' = "done"
            /\ loc' = [loc EXCEPT !.out = Append(@, "=")]
       ELSE /\ exc' = exc
            /\ pc' = IF args.output THEN "save_analysis" ELSE "done"
            /\ loc' = [loc EXCEPT !.out = @ \o <<"=", "Firmware Package Analysis", "=">>
                                        \o loc.analysis.components]
    /\ UNCHANGED <<flow, args, ret, writes, seq, magic>>

\* `package.save_analysis(args.output)`: analyzes again and writes the file
FwSaveAnalysis ==
    /\ flow = "fw" /\ pc = "save_analysis"
    /\ loc' = [loc EXCEPT !.analysis = analyze(loc.components),
                          !.out = @ \o analyze_output(loc.components)
                                    \o <<"Analysis saved to">>]
    /\ pc' = "done"
    /\ UNCHANGED <<flow, args, ret, writes, seq, magic, exc>>

NextFirmware == FwExtract \/ FwSkipExtract \/ FwAnalyze \/ FwPrintSummary \/ FwSaveAnalysis

SpecFirmware == InitFirmware /\ [][NextFirmware]_vars

\* C30: the firmware tool never ends in an unhandled exception for lack of
\* components: when analysis is requested while no components are loaded
\* (analysis without extraction, or an extracted package without manifest),
\* analyze reports that no components were found and returns an empty
\* result, and main finishes normally.
C30_NoComponentsHandled ==
    flow = "fw" =>
        /\ exc = "none"
        /\ (pc \in {"print_summary", "save_analysis", "done"} /\ loc.exit = 0
            /\ (args.extract \/ args.analyze) /\ loc.components = <<>>) =>
              /\ loc.analysis.keys = {}
              /\ \E i \in 1..Len(loc.out) :
                    loc.out[i] = "No components found. Extract package first."

---------------------------------------------------------------------------
(* Properties of send_notification (under Spec) *)

\* the channel writes of the notification flow, the handshakes left out
NotifOps == SelectSeq(writes, LAMBDA w : w.op # "auth")

OpNames(ws) == [i \in 1..Len(ws) |-> ws[i].op]

IsPrefixOf(s, t) == Len(s) <= Len(t) /\ s = SubSeq(t, 1, Len(s))

\* C13: the size, checksum and extra byte declared in the FILE_CHECK packet
\* are those of exactly the bytes the DATA packet carries: at the DATA
\* write, the FILE_CHECK payload written before it holds len * 256, the
\* CRC-32C shifted left by 8 and the CRC-32C's top byte of the DATA payload.
C13_FileCheckOverDataBytes ==
    (flow = "notif" /\ writes # <<>> /\ LastWrite.op = "DATA") =>
        LET ops == NotifOps
            fc == PayloadOf(ops[1].data)
            data == PayloadOf(LastWrite.data)
            crc == RefCrc32c(data)
        IN  /\ ops[1].op = "FILE_CHECK"
            /\ data = loc.json_bytes
            /\ SubSeq(fc, 5, 8) = RefSizeLE(Len(data))
            /\ SubSeq(fc, 9, 12) = <<0, crc[4], crc[3], crc[2]>>
            /\ fc[13] = crc[1]

\* the DATA write of a notification that was truncated to fit
C13_Witness ==
    /\ flow = "notif" /\ writes # <<>> /\ LastWrite.op = "DATA"
    /\ loc.json_bytes # make_json(loc.title, loc.subtitle, loc.message, DefaultAppId,
                                  DefaultDisplayName, args.clock + args.tick + args.tick_json, args.date)
    /\ Len(PayloadOf(LastWrite.data)) = MAX_JSON_SIZE

NotifOrder == <<"FILE_CHECK", "START", "DATA", "END", "HEARTBEAT">>

\* C14: each notification is written as exactly FILE_CHECK, START, DATA,
\* END, in that order and each once, all to the right eye, with DATA a
\* single packet (total_count = packet_index = 1); the heartbeat is written
\* to the left eye exactly once and only after the END write.
C14_FourStepsThenHeartbeat ==
    (flow = "notif" /\ NotifOps # <<>>) =>
        LET ops == NotifOps
        IN  /\ IsPrefixOf(OpNames(ops), NotifOrder)
            /\ \A i \in 1..Len(ops) :
                  /\ ops[i].op # "HEARTBEAT" =>
                        ops[i].ep = "right" /\ ops[i].ch = "CHAR_NOTIF_WRITE"
                  /\ ops[i].op = "HEARTBEAT" => ops[i].ep = "left"
                  /\ ops[i].op = "DATA" => ops[i].data[5] = 1 /\ ops[i].data[6] = 1
            /\ pc = "done" => OpNames(ops) = NotifOrder

---------------------------------------------------------------------------
(* Properties of the texts handed to the Even AI encoders (under Spec) *)

\* the text the next step hands to build_ask, and to build_reply
AskText ==
    IF flow = "ai" THEN loc.question ELSE truncate_for_display(loc.question, 150).val

ReplyText ==
    IF flow = "ai" THEN loc.answer ELSE display_answer(args.provider).val

\* C18: on every path that displays a question and an answer (display_qa,
\* and query_and_display, the path where the provider raises included), the
\* text handed to build_ask is at most 150 UTF-8 bytes and the text handed
\* to build_reply is at most 200 UTF-8 bytes.
C18_TextBudgets ==
    (flow \in {"ai", "llm"}) =>
        /\ pc = "ask" => Len(utf8(AskText)) <= 150
        /\ pc = "reply" => Len(utf8(ReplyText)) <= 200

---------------------------------------------------------------------------
(* Routing addresses of the packets written (under Spec) *)

\* the service bytes of a frame
RouteOf(frame) == <<frame[7], frame[8]>>

\* the routing addresses a write of kind op may carry, with sync_route the
\* address of the teleprompter sync (the heartbeat bytes are not a packet
\* built by a channel)
RoutesOf(op, sync_route) ==
    CASE op \in {"ENTER", "ASK", "REPLY"} -> {<<7, 32>>}
      [] op \in {"INIT", "PAGE", "MARKER"} -> {<<6, 32>>}
      [] op = "SYNC" -> {sync_route}
      [] op = "CONFIG" -> {<<14, 32>>}
      [] op \in {"FILE_CHECK", "START", "END"} -> {<<196, 0>>}
      [] op = "DATA" -> {<<197, 0>>}
      [] op = "auth" -> {<<128, 0>>, <<128, 32>>}
      [] OTHER -> {RouteOf(heartbeat_frame)}

RoutedAs(sync_route) ==
    /\ writes # <<>> => RouteOf(LastWrite.data) \in RoutesOf(LastWrite.op, sync_route)
    /\ flow = "ai" =>
          LET built == build_ctrl_exit(seq, magic)
          IN  built.exc = "none" => RouteOf(built.val) = <<7, 32>>

\* C22 as stated: every packet carries the routing address of the channel
\* that built it, the teleprompter sync carrying (0x06,0x20) like init,
\* content page and marker.
C22_AsStated == RoutedAs(<<6, 32>>)

\* C22: every packet carries the routing address of the channel that built
\* it: AI enter, exit, ask and reply (0x07,0x20); teleprompter init, content
\* page and marker (0x06,0x20); teleprompter sync (0x80,0x00); display
\* config (0x0E,0x20); notification FILE_CHECK, START and END (0xC4,0x00);
\* notification DATA (0xC5,0x00); handshake packets (0x80,0x00) or
\* (0x80,0x20).
C22_Routes == RoutedAs(<<128, 0>>)

\* the sync write of a teleprompter run
C22_Witness ==
    /\ flow = "tp" /\ writes # <<>> /\ LastWrite.op = "SYNC"
    /\ RouteOf(LastWrite.data) = <<128, 0>>

---------------------------------------------------------------------------
(* Settle delays between writes (under Spec) *)

\* the index of the write before the last one that went to the same eye as
\* the last one, 0 when there is none
PrevOnSameEp ==
    LET n == Len(writes)
        same == {i \in 1..(n - 1) : writes[i].ep = writes[n].ep}
    IN  IF n >= 2 /\ writes[n - 1].ep = writes[n].ep THEN n - 1
        ELSE IF same = {} THEN 0
        ELSE CHOOSE i \in same : \A j \in same : j <= i

RECURSIVE SleptBetween(_, _)
\* the milliseconds slept after the writes i..j
SleptBetween(i, j) == IF i > j THEN 0 ELSE writes[i].sleep + SleptBetween(i + 1, j)

ModeEntering == {"ENTER", "CONFIG", "INIT"}

\* C24: in every flow the writes are issued one at a time (each write is one
\* step of the run), between any two consecutive writes to the same endpoint
\* the flow waits at least 100 ms, and after a mode-entering control packet
\* (AI ENTER, teleprompter display config and init) at least 300 ms before
\* the next write to that endpoint.
C24_SettleDelays ==
    (writes # <<>> /\ PrevOnSameEp # 0) =>
        LET waited == SleptBetween(PrevOnSameEp, Len(writes) - 1)
        IN  /\ waited >= 100
            /\ writes[PrevOnSameEp].op \in ModeEntering => waited >= 300

\* the ASK write 300 ms after ENTER, and the heartbeat to the left eye after
\* the writes to the right eye
C24_Witness ==
    /\ writes # <<>> /\ PrevOnSameEp # 0
    /\ \/ LastWrite.op = "ASK" /\ writes[PrevOnSameEp].op = "ENTER"
          /\ SleptBetween(PrevOnSameEp, Len(writes) - 1) = 300
       \/ LastWrite.op = "HEARTBEAT" /\ PrevOnSameEp < Len(writes) - 1

\* C28: every page that format_text returns with its default parameters can
\* be sent: build_content_page on it yields a payload that fits the length
\* byte, so the teleprompter send flow never fails while building a
\* content-page packet, whatever the text (a failure of the flow, if any,
\* is the sequence counter's).
C28_PagesSendable ==
    flow = "tp" =>
        /\ pc = "config" =>
              \A i \in 1..Len(loc.pages) :
                  build_content_page(8, 20, i - 1, loc.pages[i]).exc = "none"
        /\ exc = "ValueError" => seq > 255

\* the writes of a teleprompter run of n pages after the handshake, in order
TpOrder(n) ==
    [k \in 1..(n + 4) |->
        IF k = 1 THEN "CONFIG" ELSE IF k = 2 THEN "INIT"
        ELSE IF k = 13 THEN "MARKER" ELSE IF k = 16 THEN "SYNC" ELSE "PAGE"]

\* the 0-based page a PAGE write at position k of that order carries
TpPageAt(k) == IF k <= 12 THEN k - 3 ELSE IF k <= 15 THEN k - 4 ELSE k - 5

\* C29: after the handshake the teleprompter send flow writes display
\* config, init, content pages 0 to 9, the marker, pages 10 and 11, sync,
\* then all remaining pages: every page returned by format_text is written
\* exactly once, with its 0-based position as page index and in ascending
\* order, and marker and sync are each written exactly once.
C29_SendOrder ==
    (flow = "tp" /\ writes # <<>> /\ pc # "auth") =>
        LET ops == NotifOps
            order == TpOrder(Len(loc.pages))
            p == PayloadOf(LastWrite.data)
            top == RefFields(p, 1, Len(p))
            sub == RefFields(p, top[3].lo, top[3].hi)
        IN  /\ IsPrefixOf(OpNames(ops), order)
            /\ (ops # <<>> /\ LastWrite.op = "PAGE") =>
                  /\ sub[1].val = TpPageAt(Len(ops))
                  /\ SubSeq(p, sub[3].lo, sub[3].hi)
                        = <<10>> \o utf8(loc.pages[TpPageAt(Len(ops)) + 1])
            /\ pc = "done" => OpNames(ops) = order
=============================================================================
